---- MODULE Spec2Model ----
(***************************************************************************)
(* Model of the time-series ingestion engine of uglyData                   *)
(* (uglyData/ingestor/tslib.py, uglyData/ingestor/timescale.py) and of the *)
(* connection layer it writes through (uglyData/db/postgres.py).           *)
(*                                                                         *)
(* One destination table "t" with the columns (k, a): k is the primary-key *)
(* column (when the table has a primary key) and a is a nullable value     *)
(* column.  A hypertable keeps its rows in the chunks c1 and c2: either    *)
(* each key in a chunk of its own, or both keys in c1.                     *)
(***************************************************************************)
EXTENDS Integers, Sequences, FiniteSets, TLC

\* the ingestion engine and its database
VARIABLES tbl, dest, comp, staging, cache, task
\* the pooled connection layer, a paginated read, the streaming store channel
\* and a builder request
VARIABLES pool, pager, ws, bld
\* the notices of a connection, a compression job and a driver resolution
VARIABLES nt, job, drv

vars == <<tbl, dest, comp, staging, cache, task, pool, pager, ws, bld, nt, job, drv>>

\* the parts a specification of the ingestion engine leaves alone
others == <<pool, pager, ws, bld, nt, job, drv>>
\* a part that takes no part in the specification at hand
Off == [part |-> "off"]
OthersOff == pool = Off /\ pager = Off /\ ws = Off /\ bld = Off /\ nt = Off /\ job = Off /\ drv = Off

-----------------------------------------------------------------------------
(* Bounds and value universes                                              *)

\* longest batch (rows of a dataframe / lines of a csv) handed to one call
MaxBatch == 2
\* most rows carrying one key that a table without primary key starts with
MaxRows == 1

Keys == {"k1", "k2"}
\* values COPY accepts for column a
StoredVals == {"NULL", "v1", "v2"}
\* values a batch can carry for column a; "bad" is text of the wrong data type
BatchVals == StoredVals \cup {"bad"}
\* values the destination holds before the call
InitVals == {"NULL", "v1"}

Rows == [k : Keys, a : StoredVals]
BatchRows == [k : Keys, a : BatchVals]
Batches == UNION {[1..n -> BatchRows] : n \in 0..MaxBatch}

\* Python's None and a present value, for optional arguments
NoneV == <<>>
Some(x) == <<x>>
IsNone(o) == o = <<>>
Get(o) == o[1]

Range(s) == {s[i] : i \in 1..Len(s)}

RECURSIVE SumOver(_, _)
SumOver(S, f) ==
    IF S = {} THEN 0
    ELSE LET x == CHOOSE y \in S : TRUE IN f[x] + SumOver(S \ {x}, f)

-----------------------------------------------------------------------------
(* The destination as the storage engine holds it: for every row value the *)
(* number of stored rows equal to it, and per chunk whether it is          *)
(* compressed.                                                             *)

EmptyTable == [r \in Rows |-> 0]
CountKey(d, k) == d[[k |-> k, a |-> "NULL"]] + d[[k |-> k, a |-> "v1"]] + d[[k |-> k, a |-> "v2"]]
CountAll(d) == SumOver(Rows, d)
RowOf(d, k) == CHOOSE r \in Rows : r.k = k /\ d[r] > 0
Chunks == {"c1", "c2"}
\* the chunk the rows of key k live in
ChunkOf(t, k) == IF t.span = "wide" \/ k = "k1" THEN "c1" ELSE "c2"

\* ON_CONFLICT enum
DO_NOTHING == "do_nothing"
UPDATE == "update"

\* the columns of the destination in ordinal order, and its primary key
TableColumns == <<"k", "a">>
TablePkeys(t) == IF t.pk THEN Some(<<"k">>) ELSE NoneV

\* an exception: its class and the phrase of its message the code looks at
Err(cls, msg) == [cls |-> cls, msg |-> msg]
NoErr == Err("none", "")

-----------------------------------------------------------------------------
(* Storage engine: COPY ... FROM STDIN                                     *)

\* the row COPY stores for a batch row when only `columns` are copied:
\* columns left out take their default, NULL
ProjectRow(r, columns) ==
    [k |-> r.k,
     a |-> IF IsNone(columns) \/ "a" \in Range(Get(columns)) THEN r.a ELSE "NULL"]

\* COPY into the destination, row by row; the first failing row aborts the
\* statement and nothing of it is kept
RECURSIVE CopyRows(_, _, _, _, _)
CopyRows(t, c, d, rows, i) ==
    IF i > Len(rows) THEN [err |-> NoErr, dest |-> d]
    ELSE LET r == rows[i] IN
         IF r.a = "bad"
         THEN [err |-> Err("DataError", "invalid input syntax"), dest |-> d]
         ELSE IF t.kind = "hypertable" /\ c[ChunkOf(t, r.k)]
         THEN [err |-> Err("FeatureNotSupported", "compressed chunk"), dest |-> d]
         ELSE IF t.pk /\ CountKey(d, r.k) > 0
         THEN [err |-> Err("UniqueViolation", "duplicate key"), dest |-> d]
         ELSE CopyRows(t, c, [d EXCEPT ![r] = @ + 1], rows, i + 1)

\* AsyncDB.copy_to_table onto the destination: the error raised (or none), the
\* destination afterwards and the row count the method returns
CopyToTable(t, c, d, rows, columns) ==
    IF t.kind = "missing"
    THEN [err |-> Err("UndefinedTable", "relation does not exist"), dest |-> d, rows |-> 0]
    ELSE IF t.kind = "rls"
    THEN [err |-> Err("FeatureNotSupported", "row-level security"), dest |-> d, rows |-> 0]
    ELSE LET out == CopyRows(t, c, d,
                             [i \in 1..Len(rows) |-> ProjectRow(rows[i], columns)], 1)
         IN IF out.err = NoErr
            THEN [err |-> NoErr, dest |-> out.dest, rows |-> Len(rows)]
            ELSE [err |-> out.err, dest |-> d, rows |-> 0]

\* AsyncDB.copy_to_table onto the staging table of the session: a temporary
\* table like the destination, without its constraints
CopyToStaging(stg, rows, columns) ==
    IF IsNone(stg)
    THEN [err |-> Err("UndefinedTable", "relation does not exist"), staging |-> stg]
    ELSE IF \E i \in 1..Len(rows) : ProjectRow(rows[i], columns).a = "bad"
    THEN [err |-> Err("DataError", "invalid input syntax"), staging |-> stg]
    ELSE [err |-> NoErr,
          staging |-> Some(Get(stg) \o
                           [i \in 1..Len(rows) |-> ProjectRow(rows[i], columns)])]

-----------------------------------------------------------------------------
(* Storage engine: INSERT ... SELECT ... FROM staging ON CONFLICT          *)

\* the value an updated column takes: excluded.col, or
\* COALESCE(excluded.col, table.col)
UpdatedValue(coalesce, excluded, old) ==
    IF coalesce /\ excluded = "NULL" THEN old ELSE excluded

\* rows in staging order; `touched` are the keys this statement has already
\* inserted or updated (a second update of one of them is a cardinality
\* violation); n counts the rows of RETURNING
RECURSIVE UpsertRows(_, _, _, _, _, _, _, _)
UpsertRows(d, rows, i, action, updcols, coalesce, touched, n) ==
    IF i > Len(rows) THEN [err |-> NoErr, dest |-> d, n |-> n]
    ELSE LET r == rows[i] IN
         IF CountKey(d, r.k) = 0
         THEN UpsertRows([d EXCEPT ![r] = @ + 1], rows, i + 1, action, updcols,
                         coalesce, touched \cup {r.k}, n + 1)
         ELSE IF action = "NOTHING"
         THEN UpsertRows(d, rows, i + 1, action, updcols, coalesce, touched, n)
         ELSE IF r.k \in touched
         THEN [err |-> Err("CardinalityViolation", "cannot affect row a second time"),
               dest |-> d, n |-> 0]
         ELSE LET old == RowOf(d, r.k)
                  new == [k |-> r.k,
                          a |-> IF "a" \in Range(updcols)
                                THEN UpdatedValue(coalesce, r.a, old.a)
                                ELSE old.a]
              IN UpsertRows([[d EXCEPT ![old] = @ - 1] EXCEPT ![new] = @ + 1],
                            rows, i + 1, action, updcols, coalesce,
                            touched \cup {r.k}, n + 1)

\* the statement as a whole: it needs the staging table and a unique
\* constraint on the conflict target, and it is atomic
InsertFromStaging(t, d, stg, columns, action, updcols, coalesce) ==
    IF IsNone(stg)
    THEN [err |-> Err("UndefinedTable", "relation does not exist"), dest |-> d, n |-> 0]
    ELSE IF ~t.pk
    THEN [err |-> Err("InvalidColumnReference", "no unique constraint"), dest |-> d, n |-> 0]
    ELSE LET rows == [i \in 1..Len(Get(stg)) |-> ProjectRow(Get(stg)[i], Some(columns))]
             out == UpsertRows(d, rows, 1, action, updcols, coalesce, {}, 0)
         IN IF out.err = NoErr THEN out ELSE [err |-> out.err, dest |-> d, n |-> 0]

-----------------------------------------------------------------------------
(* Storage engine: the procedure decompress_backfill                       *)

ChunkOrder == <<"c1", "c2">>
StagingKeys(stg) == {Get(stg)[i].k : i \in 1..Len(Get(stg))}
TouchedChunks(t, stg) == {ChunkOf(t, k) : k \in StagingKeys(stg)}

\* a server notice: whether its text holds the word "rows", whether its first
\* word is a number, and that number
Notice(n) == [rows |-> TRUE, num |-> TRUE, n |-> n]

\* the chunks after the procedure: a touched chunk is decompressed for the
\* insert and compressed again only when it was compressed and
\* recompress_after is set; every other chunk is left alone
ChunksAfter(c, touched, recompress_after) ==
    [ch \in Chunks |-> IF ch \in touched THEN c[ch] /\ recompress_after ELSE c[ch]]

\* one notice "<N> rows ..." per touched chunk, N the rows the procedure
\* inserted or updated in that chunk
RECURSIVE ChunkNotices(_, _, _, _, _, _, _)
ChunkNotices(i, t, d, stg, action, updcols, coalesce) ==
    IF i > Len(ChunkOrder) THEN <<>>
    ELSE LET ch == ChunkOrder[i]
             part == Some(SelectSeq(Get(stg), LAMBDA r : ChunkOf(t, r.k) = ch))
             n == InsertFromStaging(t, d, part, TableColumns, action, updcols,
                                    coalesce).n
         IN (IF ch \in TouchedChunks(t, stg) THEN <<Notice(n)>> ELSE <<>>)
            \o ChunkNotices(i + 1, t, d, stg, action, updcols, coalesce)

\* CALL decompress_backfill(staging_table, destination_hypertable,
\*   on_conflict_action, on_conflict_target, on_conflict_update_columns,
\*   force_nulls, recompress_after)
DecompressBackfill(t, d, c, stg, action, target, updcols, force_nulls, recompress_after) ==
    IF t.kind # "hypertable"
    THEN [err |-> Err(t.procErr, "not a hypertable"), dest |-> d, comp |-> c,
          notices |-> <<>>]
    ELSE LET out == InsertFromStaging(t, d, stg, TableColumns, action, updcols,
                                      ~force_nulls)
         IN IF out.err # NoErr
            THEN [err |-> out.err, dest |-> d, comp |-> c, notices |-> <<>>]
            ELSE [err |-> NoErr, dest |-> out.dest,
                  comp |-> ChunksAfter(c, TouchedChunks(t, stg), recompress_after),
                  notices |-> ChunkNotices(1, t, d, stg, action, updcols,
                                          ~force_nulls)]

-----------------------------------------------------------------------------
(* timescale.backfill and TSLib._noht_backfill                             *)

\* a procedure call that asks for UPDATE whatever the policy
ConflictActionAlwaysUpdate(on_conflict) == "UPDATE"

\* on_conflict_action of the CALL
ConflictAction(on_conflict) ==
    IF on_conflict = UPDATE THEN "UPDATE" ELSE "NOTHING"

\* [col for col in columns if col not in pkeys]
NonKeyCols(columns, pkeys) ==
    SelectSeq(columns, LAMBDA col : col \notin Range(pkeys))

\* sum([int(message.split(" ")[0]) for message in notice_msg if "rows" in message]),
\* zero when a first word is no number
RECURSIVE SumNotices(_, _)
SumNotices(msgs, i) ==
    IF i > Len(msgs) THEN 0
    ELSE (IF msgs[i].rows THEN msgs[i].n ELSE 0) + SumNotices(msgs, i + 1)

ParseNotices(msgs) ==
    IF \E i \in 1..Len(msgs) : msgs[i].rows /\ ~msgs[i].num
    THEN 0
    ELSE SumNotices(msgs, 1)

\* the arguments timescale.backfill passes to the procedure, or the TypeError
\* of building them from a missing column list or a missing primary key
BackfillArgsError(columns, pkeys) ==
    IF IsNone(columns) \/ IsNone(pkeys)
    THEN Err("TypeError", "NoneType is not iterable")
    ELSE NoErr

\* a CALL that never asks for recompression
RecompressNever(recompress_after) == FALSE

\* the recompress_after argument of the CALL
RecompressArg(recompress_after) == recompress_after

\* timescale.backfill from the CALL on: the procedure's error is raised, its
\* notices are summed into the row count
Backfill(t, d, c, stg, pkeys, columns, on_conflict, force_nulls, recompress_after) ==
    LET out == DecompressBackfill(t, d, c, stg, ConflictAction(on_conflict),
                                  pkeys, NonKeyCols(columns, pkeys), force_nulls,
                                  RecompressArg(recompress_after))
    IN [err |-> out.err, dest |-> out.dest, comp |-> out.comp,
        rows |-> IF out.err = NoErr THEN ParseNotices(out.notices) ELSE 0]

\* the ON CONFLICT clause TSLib._noht_backfill builds
NohtAction(on_conflict) ==
    IF on_conflict = DO_NOTHING THEN "NOTHING" ELSE "UPDATE"

\* whether the SET list wraps excluded.col in COALESCE(..., table.col)
NohtCoalesce(force_nulls) == ~force_nulls

\* what TSLib._noht_backfill does with a failure of its statement: the
\* exception is caught and the method returns 0
NohtResult(out) == IF out.err = NoErr THEN out.n ELSE 0

\* TSLib._noht_backfill: the manual upsert from the staging table
NohtBackfill(t, d, stg, pkeys, columns, on_conflict, force_nulls) ==
    LET out == InsertFromStaging(t, d, stg, columns, NohtAction(on_conflict),
                                 NonKeyCols(columns, pkeys),
                                 NohtCoalesce(force_nulls))
    IN [err |-> out.err, dest |-> out.dest, rows |-> NohtResult(out)]

-----------------------------------------------------------------------------
(* TSLib: preparing the batch                                              *)

\* the primary-key values of a row
KeyOf(r, pkeys) == [i \in 1..Len(pkeys) |-> r[pkeys[i]]]

\* df.duplicated(subset=pkeys, keep=False).any()
HasDuplicates(rows, pkeys) ==
    \E i, j \in 1..Len(rows) : i # j /\ KeyOf(rows[i], pkeys) = KeyOf(rows[j], pkeys)

\* a deduplication that keeps the first row of every key
RECURSIVE KeepFirst(_, _, _)
KeepFirst(rows, pkeys, i) ==
    IF i > Len(rows) THEN <<>>
    ELSE (IF \E j \in 1..(i - 1) : KeyOf(rows[j], pkeys) = KeyOf(rows[i], pkeys)
          THEN <<>> ELSE <<rows[i]>>)
         \o KeepFirst(rows, pkeys, i + 1)

\* df.drop_duplicates(subset=pkeys, keep="last")
RECURSIVE KeepLast(_, _, _)
KeepLast(rows, pkeys, i) ==
    IF i > Len(rows) THEN <<>>
    ELSE (IF \E j \in (i + 1)..Len(rows) : KeyOf(rows[j], pkeys) = KeyOf(rows[i], pkeys)
          THEN <<>> ELSE <<rows[i]>>)
         \o KeepLast(rows, pkeys, i + 1)

\* a duplicate check that lets every batch through
CheckDuplicatesLenient(rows, pkeys, drop_duplicates) ==
    [err |-> NoErr, rows |-> rows]

\* TSLib._check_duplicates
CheckDuplicates(rows, pkeys, drop_duplicates) ==
    IF Len(pkeys) > 0 /\ HasDuplicates(rows, pkeys)
    THEN IF drop_duplicates
         THEN [err |-> NoErr, rows |-> KeepLast(rows, pkeys, 1)]
         ELSE [err |-> Err("ValueError", "Duplicate values found in primary key columns"),
               rows |-> rows]
    ELSE [err |-> NoErr, rows |-> rows]

\* a preparation that validates nothing
PrepareUnchecked(rows, dfcols, columns, pkeys, drop_duplicates) ==
    [err |-> NoErr, rows |-> rows,
     columns |-> SelectSeq(columns, LAMBDA a : a \in Range(dfcols))]

\* TSLib._prepare_dataframe: dfcols are the columns of the dataframe, columns
\* those of the destination
PrepareDataframe(rows, dfcols, columns, pkeys, drop_duplicates) ==
    IF Len(rows) = 0 \/ Len(dfcols) <= 1
    THEN [err |-> Err("ValueError", "Dataframe must be non-empty and have at least 2 columns"),
          rows |-> rows, columns |-> dfcols]
    ELSE LET chk == IF ~IsNone(pkeys)
                       /\ \A pk \in Range(Get(pkeys)) : pk \in Range(dfcols)
                    THEN CheckDuplicates(rows, Get(pkeys), drop_duplicates)
                    ELSE [err |-> NoErr, rows |-> rows]
         IN [err |-> chk.err, rows |-> chk.rows,
             columns |-> SelectSeq(columns, LAMBDA a : a \in Range(dfcols))]

\* TSLib._check_columns
CheckColumns(columns, db_columns) ==
    IF \E c \in Range(columns) : c \notin Range(db_columns)
    THEN Err("ValueError", "Column not found in table")
    ELSE NoErr

-----------------------------------------------------------------------------
(* One call of TSLib.insert / TSLib.insert_light as a task: pc names the   *)
(* database round trip the task issues next.                               *)

Tasks == {"A", "B"}

NoResult == [kind |-> "none", n |-> 0, err |-> NoErr]
Count(n) == [kind |-> "count", n |-> n, err |-> NoErr]
Raised(e) == [kind |-> "error", n |-> 0, err |-> e]

NoCall ==
    [api |-> "none", form |-> "none", rows |-> <<>>, columns |-> NoneV,
     pkeys |-> NoneV, on_conflict |-> DO_NOTHING, force_nulls |-> FALSE,
     recompress_after |-> FALSE, drop_duplicates |-> FALSE]

NoSnapshot == [dest |-> EmptyTable, comp |-> [ch \in Chunks |-> FALSE],
               staging |-> NoneV, cache |-> NoneV]

IdleTask ==
    [pc |-> "idle", call |-> NoCall, rows |-> <<>>, columns |-> NoneV,
     pkeys |-> NoneV, log |-> <<>>, res |-> NoResult, caught |-> NoErr,
     pre |-> NoSnapshot]

Finish(tk, res) == [tk EXCEPT !.pc = "done", !.res = res]

\* the round trip a call that has resolved its metadata issues first:
\* TSLib.insert from the primary-key check to the call of _insert_data
AfterInfo(tk, db_columns, pkeys) ==
    LET c == tk.call IN
    IF c.on_conflict # DO_NOTHING /\ IsNone(pkeys)
    THEN Finish(tk, Raised(Err("ValueError", "Table must have primary keys defined")))
    ELSE LET prep == IF c.form = "df"
                     THEN PrepareDataframe(c.rows, Get(c.columns), db_columns,
                                           pkeys, c.drop_duplicates)
                     ELSE [err |-> NoErr, rows |-> c.rows,
                           columns |-> IF IsNone(c.columns) THEN <<>>
                                       ELSE Get(c.columns)]
             columns == IF c.form = "df" THEN Some(prep.columns) ELSE c.columns
             chk == IF ~IsNone(columns) /\ Len(Get(columns)) > 0
                    THEN CheckColumns(Get(columns), db_columns)
                    ELSE NoErr
         IN IF prep.err # NoErr THEN Finish(tk, Raised(prep.err))
            ELSE IF chk # NoErr THEN Finish(tk, Raised(chk))
            ELSE [tk EXCEPT !.pc = "copy", !.rows = prep.rows,
                            !.columns = columns, !.pkeys = pkeys]

\* TSLib.insert up to its first round trip
BeginInsert(c, ch, snap) ==
    LET tk == [IdleTask EXCEPT !.call = c, !.pre = snap] IN
    IF c.form = "none"
    THEN Finish(tk, Raised(Err("ValueError", "Either df or csv must be provided")))
    ELSE IF IsNone(ch)
    THEN [tk EXCEPT !.pc = "get_columns"]
    ELSE AfterInfo(tk, Get(ch).columns, Get(ch).pkeys)

\* TSLib.insert_light up to its first round trip
BeginInsertLight(c, snap) ==
    [IdleTask EXCEPT !.call = c, !.pre = snap, !.pc = "copy", !.rows = c.rows,
                     !.columns = c.columns, !.pkeys = c.pkeys]

\* the state a step works on
World(d, c, stg, ch, tk) ==
    [dest |-> d, comp |-> c, staging |-> stg, cache |-> ch, task |-> tk]

Logged(tk, trip) == [tk EXCEPT !.log = Append(@, trip)]

\* AsyncDB.get_columns: UndefinedTable when the catalog lists no column
StepGetColumns(t, w) ==
    LET tk == Logged(w.task, "get_columns") IN
    IF t.kind = "missing"
    THEN [w EXCEPT !.task = Finish(tk, Raised(Err("UndefinedTable", "not found in schema")))]
    ELSE [w EXCEPT !.task = [tk EXCEPT !.pc = "get_pkeys"]]

\* TSLib._get_columns_info once the primary key is known: the cache entry is
\* written and TSLib.insert goes on
InfoKnown(w, tk, pkeys) ==
    [w EXCEPT !.cache = Some([columns |-> TableColumns, pkeys |-> pkeys]),
              !.task = AfterInfo(tk, TableColumns, pkeys)]

\* AsyncDB.get_pkeys, the query on pg_index
StepGetPkeys(t, w) ==
    LET tk == Logged(w.task, "get_pkeys") IN
    IF t.pk THEN InfoKnown(w, tk, Some(<<"k">>))
    ELSE [w EXCEPT !.task = [tk EXCEPT !.pc = "table_exists"]]

\* AsyncDB.get_pkeys, the EXISTS query of a table without primary key
StepTableExists(t, w) ==
    LET tk == Logged(w.task, "table_exists") IN
    IF t.kind = "missing"
    THEN [w EXCEPT !.task = Finish(tk, Raised(Err("UndefinedTable", "not found in schema")))]
    ELSE InfoKnown(w, tk, NoneV)

\* a handler that answers every unsupported feature with the backfill path
FallsBackOnAnyUnsupported(e) ==
    e.cls \in {"UniqueViolation", "FeatureNotSupported"}

\* the errors of the direct copy that TSLib._insert_data answers with the
\* backfill path
FallsBack(e) ==
    \/ e.cls = "UniqueViolation"
    \/ e.cls = "FeatureNotSupported" /\ e.msg = "compressed chunk"

\* TSLib._insert_data: the direct bulk copy
StepCopy(t, w) ==
    LET tk == Logged(w.task, "copy")
        out == CopyToTable(t, w.comp, w.dest, tk.rows, tk.columns)
    IN IF out.err = NoErr
       THEN [w EXCEPT !.dest = out.dest, !.task = Finish(tk, Count(out.rows))]
       ELSE IF FallsBack(out.err)
       THEN [w EXCEPT !.task = [tk EXCEPT !.pc = "create_tmp"]]
       ELSE [w EXCEPT !.task = Finish(tk, Raised(out.err))]

\* whether the session of a statement is still there for the next statement:
\* AsyncDB keeps its one connection; AsyncDBPool.cursor without a transaction
\* borrows a connection for the statement and closes it in its finally clause
SessionOutlivesStatement(layer) == layer = "single"

\* TSLib._copy_to_tmp_table: DROP TABLE IF EXISTS _tmp_t; CREATE TEMPORARY
\* TABLE; a temporary table ends with the session that created it
StepCreateTmp(t, w) ==
    LET tk == Logged(w.task, "create_tmp") IN
    [w EXCEPT !.staging = IF SessionOutlivesStatement(t.layer) THEN Some(<<>>) ELSE NoneV,
              !.task = [tk EXCEPT !.pc = "copy_tmp"]]

\* TSLib._copy_to_tmp_table: the copy into _tmp_t, and timescale.backfill up
\* to its CALL
StepCopyTmp(t, w) ==
    LET tk == Logged(w.task, "copy_tmp")
        out == CopyToStaging(w.staging, tk.rows, tk.columns)
        bad == BackfillArgsError(tk.columns, tk.pkeys)
    IN IF out.err # NoErr
       THEN [w EXCEPT !.task = Finish(tk, Raised(out.err))]
       ELSE IF bad # NoErr
       THEN [w EXCEPT !.staging = out.staging, !.task = Finish(tk, Raised(bad))]
       ELSE [w EXCEPT !.staging = out.staging,
                      !.task = [tk EXCEPT !.pc = "call_backfill"]]

\* a handler that answers every failure of the procedure with the manual upsert
ProcedureAnyFailure(e) == TRUE

\* the errors of the procedure that TSLib._run_backfilling_procedure answers
\* with the manual upsert
ProcedureInapplicable(e) ==
    e.cls \in {"NoDataFound", "IndeterminateDatatype"}

\* TSLib._run_backfilling_procedure: the CALL of the procedure
StepCallBackfill(t, w) ==
    LET tk == Logged(w.task, "call_backfill")
        c == tk.call
        out == Backfill(t, w.dest, w.comp, w.staging, Get(tk.pkeys), Get(tk.columns),
                        c.on_conflict, c.force_nulls, c.recompress_after)
    IN IF out.err = NoErr
       THEN [w EXCEPT !.dest = out.dest, !.comp = out.comp,
                      !.task = Finish(tk, Count(out.rows))]
       ELSE IF ProcedureInapplicable(out.err)
       THEN [w EXCEPT !.task = [tk EXCEPT !.pc = "upsert"]]
       ELSE [w EXCEPT !.task = Finish(tk, Raised(out.err))]

\* a manual upsert that hands the batch back to the direct copy
UpsertThenCopyAgain(t, w) ==
    [w EXCEPT !.task = [Logged(w.task, "upsert") EXCEPT !.pc = "copy"]]

\* TSLib._noht_backfill: the manual upsert
StepUpsert(t, w) ==
    LET tk == Logged(w.task, "upsert")
        c == tk.call
        out == NohtBackfill(t, w.dest, w.staging, Get(tk.pkeys), Get(tk.columns),
                            c.on_conflict, c.force_nulls)
    IN [w EXCEPT !.dest = out.dest,
                 !.task = Finish([tk EXCEPT !.caught = out.err], Count(out.rows))]

\* the next round trip of a task
Step(t, w) ==
    CASE w.task.pc = "get_columns" -> StepGetColumns(t, w)
      [] w.task.pc = "get_pkeys" -> StepGetPkeys(t, w)
      [] w.task.pc = "table_exists" -> StepTableExists(t, w)
      [] w.task.pc = "copy" -> StepCopy(t, w)
      [] w.task.pc = "create_tmp" -> StepCreateTmp(t, w)
      [] w.task.pc = "copy_tmp" -> StepCopyTmp(t, w)
      [] w.task.pc = "call_backfill" -> StepCallBackfill(t, w)
      [] w.task.pc = "upsert" -> StepUpsert(t, w)
      [] OTHER -> w

\* a call run to its end without interleaving
RECURSIVE RunToEnd(_, _)
RunToEnd(t, w) ==
    IF w.task.pc = "done" THEN w ELSE RunToEnd(t, Step(t, w))

-----------------------------------------------------------------------------
(* Sequential use: one caller, one call at a time                          *)

Policies == {DO_NOTHING, UPDATE}
FullColumns == <<"k", "a">>
\* the columns of a dataframe that carries the key and a column x the
\* destination does not have (and no column a: its rows hold no value for a)
ForeignColumns == <<"k", "x">>

\* the destinations the engine is pointed at
TableKinds ==
    [kind : {"hypertable"}, pk : {TRUE}, procErr : {"none"},
     span : {"narrow", "wide"}, layer : {"single"}]
    \cup [kind : {"plain"}, pk : {TRUE},
          procErr : {"NoDataFound", "IndeterminateDatatype"}, span : {"wide"},
          layer : {"single"}]
    \cup {[kind |-> "plain", pk |-> FALSE, procErr |-> "NoDataFound", span |-> "wide",
           layer |-> "single"],
          [kind |-> "rls", pk |-> TRUE, procErr |-> "NoDataFound", span |-> "wide",
           layer |-> "single"],
          [kind |-> "missing", pk |-> FALSE, procErr |-> "none", span |-> "wide",
           layer |-> "single"]}

\* the destinations reached through a pool, as the TSLib of the API service
\* (ts_lib = TSLib(db=pool)) reaches them: no transaction is open
PooledTables ==
    {[kind |-> "hypertable", pk |-> TRUE, procErr |-> "none", span |-> "narrow",
      layer |-> "pool"],
     [kind |-> "plain", pk |-> TRUE, procErr |-> "NoDataFound", span |-> "wide",
      layer |-> "pool"]}

\* what the destination holds when the caller arrives
InitDest(t) ==
    IF t.kind \in {"missing", "rls"} THEN {EmptyTable}
    ELSE {d \in [Rows -> 0..MaxRows] :
            /\ \A r \in Rows : r.a \notin InitVals => d[r] = 0
            /\ t.pk => \A k \in Keys : CountKey(d, k) <= 1}

\* the arguments of TSLib.insert
InsertCalls ==
    [api : {"insert"}, form : {"df"}, rows : Batches,
     columns : {Some(FullColumns), Some(<<"k">>)}, pkeys : {NoneV},
     on_conflict : Policies, force_nulls : BOOLEAN, recompress_after : BOOLEAN,
     drop_duplicates : BOOLEAN]
    \cup
    [api : {"insert"}, form : {"df"}, rows : {b \in Batches : \A i \in 1..Len(b) : b[i].a = "NULL"},
     columns : {Some(ForeignColumns)}, pkeys : {NoneV},
     on_conflict : Policies, force_nulls : {FALSE}, recompress_after : {TRUE},
     drop_duplicates : BOOLEAN]
    \cup
    [api : {"insert"}, form : {"csv"}, rows : Batches,
     columns : {NoneV, Some(FullColumns)}, pkeys : {NoneV},
     on_conflict : Policies, force_nulls : BOOLEAN, recompress_after : BOOLEAN,
     drop_duplicates : {TRUE}]
    \cup
    [api : {"insert"}, form : {"none"}, rows : {<<>>},
     columns : {NoneV}, pkeys : {NoneV},
     on_conflict : Policies, force_nulls : {FALSE}, recompress_after : {TRUE},
     drop_duplicates : {TRUE}]

\* the arguments of TSLib.insert_sync(df, table, schema, on_conflict)
InsertSyncCalls ==
    [api : {"insert_sync"}, form : {"df"}, rows : Batches,
     columns : {Some(FullColumns)}, pkeys : {NoneV},
     on_conflict : Policies, force_nulls : {FALSE}, recompress_after : {TRUE},
     drop_duplicates : {TRUE}]

\* self.insert(df, table, schema, on_conflict) against the parameters
\* (table, schema, df, csv, ...) of TSLib.insert: the dataframe is bound to
\* table, the table name to schema, the schema to df and the policy to csv;
\* df is not None and on_conflict keeps its default
PositionalCall(c) == [c EXCEPT !.on_conflict = DO_NOTHING]

\* the table the catalog is asked for when the name is the text of a
\* dataframe: information_schema.columns lists no column for it
NoSuchTable ==
    [kind |-> "missing", pk |-> FALSE, procErr |-> "none", span |-> "wide",
     layer |-> tbl.layer]

\* the arguments of TSLib.insert_light
InsertLightCalls ==
    [api : {"insert_light"}, form : {"csv"}, rows : Batches,
     columns : {Some(FullColumns)}, pkeys : {NoneV, Some(<<"k">>)},
     on_conflict : Policies, force_nulls : BOOLEAN, recompress_after : BOOLEAN,
     drop_duplicates : {TRUE}]

Snapshot == [dest |-> dest, comp |-> comp, staging |-> staging, cache |-> cache]
AllIdle == \A i \in Tasks : task[i].pc = "idle"

Apply(i, w) ==
    /\ dest' = w.dest
    /\ comp' = w.comp
    /\ staging' = w.staging
    /\ cache' = w.cache
    /\ task' = [task EXCEPT ![i] = w.task]
    /\ UNCHANGED <<tbl, others>>

Init ==
    /\ tbl \in TableKinds
    /\ dest \in InitDest(tbl)
    /\ comp = [ch \in Chunks |-> FALSE]
    /\ staging = NoneV
    /\ cache = NoneV
    /\ task = [i \in Tasks |-> IdleTask]
    /\ OthersOff

\* await tslib.insert(...)
Insert(c) ==
    /\ Apply("A", RunToEnd(tbl, World(dest, comp, staging, cache,
                                      BeginInsert(c, cache, Snapshot))))

\* await tslib.insert_light(...)
InsertLight(c) ==
    /\ Apply("A", RunToEnd(tbl, World(dest, comp, staging, cache,
                                      BeginInsertLight(c, Snapshot))))

\* tslib.insert_sync(df, table, schema, on_conflict): the cache holds no entry
\* under the swapped name, and the failed lookup writes none
InsertSync(c) ==
    LET w == RunToEnd(NoSuchTable,
                      World(dest, comp, staging, NoneV,
                            BeginInsert(PositionalCall(c), NoneV, Snapshot)))
    IN Apply("A", [w EXCEPT !.cache = cache, !.task.call = c])

\* TSLib._get_columns_info on a cache miss, as TSLib.df2insertlight runs it
GetColumnsInfo ==
    /\ AllIdle
    /\ IsNone(cache)
    /\ tbl.kind # "missing"
    /\ cache' = Some([columns |-> TableColumns, pkeys |-> TablePkeys(tbl)])
    /\ UNCHANGED <<tbl, dest, comp, staging, task, others>>

\* select compress_chunk(chunk): the compression policy or an operator
\* compresses a chunk that holds rows
CompressChunk(ch) ==
    /\ AllIdle
    /\ tbl.kind = "hypertable"
    /\ ~comp[ch]
    /\ \E k \in Keys : ChunkOf(tbl, k) = ch /\ CountKey(dest, k) > 0
    /\ comp' = [comp EXCEPT ![ch] = TRUE]
    /\ UNCHANGED <<tbl, dest, staging, cache, task, others>>

Next ==
    \/ AllIdle /\ \E c \in InsertCalls : Insert(c)
    \/ AllIdle /\ \E c \in InsertLightCalls : InsertLight(c)
    \/ AllIdle /\ \E c \in InsertSyncCalls : InsertSync(c)
    \/ GetColumnsInfo
    \/ \E ch \in Chunks : CompressChunk(ch)

Spec == Init /\ [][Next]_vars

\* the same caller on a TSLib built on the pool
InitPooledLayer ==
    /\ tbl \in PooledTables
    /\ dest \in InitDest(tbl)
    /\ comp = [ch \in Chunks |-> FALSE]
    /\ staging = NoneV
    /\ cache = NoneV
    /\ task = [i \in Tasks |-> IdleTask]
    /\ OthersOff

SpecPooledLayer == InitPooledLayer /\ [][Next]_vars

-----------------------------------------------------------------------------
(* Concurrent use: two tasks call insert through one TSLib instance, on    *)
(* one connection; the event loop switches task at a round trip.           *)

\* the value each task writes, to tell the batches apart
ValueOf == [i \in Tasks |-> IF i = "A" THEN "v1" ELSE "v2"]

ConcKeySeqs == {<<"k1">>, <<"k2">>, <<"k1", "k2">>, <<"k2", "k1">>}

\* the arguments of the concurrent calls: dataframes with distinct keys
ConcCalls(i) ==
    [api : {"insert"}, form : {"df"},
     rows : {[j \in 1..Len(ks) |-> [k |-> ks[j], a |-> ValueOf[i]]] : ks \in ConcKeySeqs},
     columns : {Some(FullColumns)}, pkeys : {NoneV},
     on_conflict : Policies, force_nulls : {FALSE}, recompress_after : {TRUE},
     drop_duplicates : {TRUE}]

ConcTables ==
    {[kind |-> "hypertable", pk |-> TRUE, procErr |-> "none", span |-> "narrow",
      layer |-> "single"],
     [kind |-> "plain", pk |-> TRUE, procErr |-> "NoDataFound", span |-> "wide",
      layer |-> "single"]}

InitConc ==
    /\ tbl \in ConcTables
    /\ dest \in InitDest(tbl)
    /\ comp = [ch \in Chunks |-> FALSE]
    /\ staging = NoneV
    /\ cache = NoneV
    /\ task = [i \in Tasks |-> IdleTask]
    /\ OthersOff

\* task i calls tslib.insert(...) and runs to its first await
Call(i, c) ==
    /\ task[i].pc = "idle"
    /\ task' = [task EXCEPT ![i] = BeginInsert(c, cache, Snapshot)]
    /\ UNCHANGED <<tbl, dest, comp, staging, cache, others>>

\* the round trip task i awaits completes and the task runs to its next await
RoundTrip(i) ==
    /\ task[i].pc \notin {"idle", "done"}
    /\ Apply(i, Step(tbl, World(dest, comp, staging, cache, task[i])))

NextConc ==
    \/ \E i \in Tasks : \E c \in ConcCalls(i) : Call(i, c)
    \/ \E i \in Tasks : RoundTrip(i)
    \/ \E ch \in Chunks : CompressChunk(ch)

SpecConc == InitConc /\ [][NextConc]_vars

-----------------------------------------------------------------------------
(* Properties of a sequential call                                         *)

\* the caller's task
A == task["A"]

BatchKeys(rows) == {rows[i].k : i \in 1..Len(rows)}
Tried(tk, trip) == \E i \in 1..Len(tk.log) : tk.log[i] = trip
KeyUnchanged(k) == \A r \in Rows : r.k = k => dest[r] = A.pre.dest[r]
Existing(k) == CountKey(A.pre.dest, k) > 0

\* C1: on a destination with a primary key, a finished call with
\* on_conflict = do_nothing leaves every row that existed before the call and
\* whose key the batch carries exactly as it was, whether the direct copy, the
\* procedure or the manual upsert met the conflict.
C1_SkipKeepsExistingRows ==
    (A.pc = "done" /\ tbl.pk /\ A.call.on_conflict = DO_NOTHING)
    => \A k \in BatchKeys(A.call.rows) : Existing(k) => KeyUnchanged(k)

\* a do_nothing insert answered by the procedure: one row of the batch meets an
\* existing key with another value and is skipped, the other row is inserted
C1_Witness ==
    /\ A.pc = "done" /\ A.call.api = "insert" /\ A.call.on_conflict = DO_NOTHING
    /\ tbl.kind = "hypertable" /\ Tried(A, "call_backfill")
    /\ A.res = Count(1)
    /\ \E i \in 1..Len(A.call.rows) :
          LET r == A.call.rows[i] IN
          /\ Existing(r.k) /\ A.pre.dest[r] = 0 /\ KeyUnchanged(r.k)

\* the value column a holds after an update from a batch value
Expected(force_nulls, batch, old) ==
    IF batch = "NULL" /\ ~force_nulls THEN old ELSE batch

\* C2: after insert with on_conflict = update has returned a count, every
\* batch row whose key existed holds in column a the batch value (the old value
\* when the batch value is null and force_nulls is false), and the number of
\* rows with that key is what it was.
C2_UpdateTakesBatchValues ==
    (A.pc = "done" /\ A.call.api = "insert" /\ A.call.on_conflict = UPDATE
       /\ A.res.kind = "count")
    => \A i \in 1..Len(A.rows) :
          LET k == A.rows[i].k IN
          Existing(k) =>
            /\ CountKey(dest, k) = CountKey(A.pre.dest, k)
            /\ dest[[k |-> k,
                     a |-> Expected(A.call.force_nulls, A.rows[i].a,
                                    RowOf(A.pre.dest, k).a)]] > 0

Uncompressed == [ch \in Chunks |-> FALSE]

\* the caller's insert run on the destination as it was with every chunk
\* uncompressed
Twin ==
    RunToEnd(tbl, World(A.pre.dest, Uncompressed, A.pre.staging, A.pre.cache,
                        BeginInsert(A.call, A.pre.cache, A.pre)))

\* C3: an insert whose batch targets a compressed chunk returns a count and
\* leaves the destination with the rows the same insert leaves when no chunk
\* is compressed, whenever that insert returns a count.
C3_CompressionTransparent ==
    (A.pc = "done" /\ A.call.api = "insert" /\ tbl.kind = "hypertable"
       /\ \E k \in BatchKeys(A.call.rows) : A.pre.comp[ChunkOf(tbl, k)])
    => (Twin.task.res.kind = "count"
          => A.res.kind = "count" /\ dest = Twin.dest)

\* C4: on a hypertable a finished call leaves the compression status of every
\* chunk its batch does not touch as it was; with recompress_after a touched
\* chunk that was compressed is compressed when the call returns; and a
\* do_nothing call whose keys all exist changes no row and, with
\* recompress_after, no chunk's compression status.
C4_ChunkIsolation ==
    (A.pc = "done" /\ tbl.kind = "hypertable")
    => /\ \A ch \in Chunks :
            (\A k \in BatchKeys(A.call.rows) : ChunkOf(tbl, k) # ch)
            => comp[ch] = A.pre.comp[ch]
       /\ \A k \in BatchKeys(A.call.rows) :
            (A.call.recompress_after /\ A.pre.comp[ChunkOf(tbl, k)])
            => comp[ChunkOf(tbl, k)]
       /\ (A.call.on_conflict = DO_NOTHING
             /\ \A k \in BatchKeys(A.call.rows) : Existing(k))
            => /\ dest = A.pre.dest
               /\ A.call.recompress_after => comp = A.pre.comp

\* a backfill into the compressed chunk of k1 while the chunk of k2 holds rows
\* and is not compressed: the procedure ran, k1's chunk is compressed again
C4_Witness ==
    /\ A.pc = "done" /\ tbl.kind = "hypertable" /\ tbl.span = "narrow"
    /\ Tried(A, "call_backfill")
    /\ A.res.kind = "count" /\ A.call.recompress_after
    /\ BatchKeys(A.call.rows) = {"k1"}
    /\ A.pre.comp["c1"] /\ comp["c1"]
    /\ Existing("k2") /\ ~A.pre.comp["c2"] /\ ~comp["c2"]

\* C6: when insert returns a row count, the statement that wrote to the
\* destination did not fail: no storage error was caught on the way.
C6_CountOnlyWhenWritten ==
    (A.pc = "done" /\ A.call.api = "insert" /\ A.res.kind = "count")
    => A.caught = NoErr

\* the direct copy of the call, from the state the call found
DirectCopy == CopyToTable(tbl, A.pre.comp, A.pre.dest, A.rows, A.columns)

\* C7: a call that tried the direct copy goes on to create the staging table
\* exactly when the copy failed with a uniqueness violation or with a
\* feature-not-supported error about a compressed chunk; after any other
\* failure the caller gets that error, no staging table exists and the
\* destination is untouched.
C7_FallbackExactly ==
    (A.pc = "done" /\ Tried(A, "copy"))
    => LET e == DirectCopy.err IN
       /\ Tried(A, "create_tmp")
            <=> \/ e.cls = "UniqueViolation"
                \/ e.cls = "FeatureNotSupported" /\ e.msg = "compressed chunk"
       /\ (e # NoErr /\ ~Tried(A, "create_tmp"))
            => /\ A.res = Raised(e)
               /\ IsNone(staging)
               /\ dest = A.pre.dest

\* a direct copy refused for another unsupported feature: the error reaches the
\* caller and no staging table was created
C7_Witness ==
    /\ A.pc = "done" /\ A.call.api = "insert" /\ Tried(A, "copy")
    /\ A.res = Raised(Err("FeatureNotSupported", "row-level security"))
    /\ ~Tried(A, "create_tmp") /\ IsNone(staging)

\* the procedure as the call invoked it: the staging table is not written
\* after the CALL, the destination not before it
ProcedureCall ==
    Backfill(tbl, A.pre.dest, A.pre.comp, staging, Get(A.pkeys), Get(A.columns),
             A.call.on_conflict, A.call.force_nulls, A.call.recompress_after)

\* the manual statement run on the staging table of the call
ManualStatement ==
    InsertFromStaging(tbl, A.pre.dest, staging, Get(A.columns),
                      IF A.call.on_conflict = DO_NOTHING THEN "NOTHING" ELSE "UPDATE",
                      NonKeyCols(Get(A.columns), Get(A.pkeys)),
                      ~A.call.force_nulls)

\* C8: a call that reached the procedure runs the manual upsert exactly when
\* the procedure failed with NoDataFound or IndeterminateDatatype; it then
\* returns the number of rows the manual statement returned (none when the
\* statement failed) and the destination is what the statement left; any
\* other failure of the procedure reaches the caller and no upsert is tried.
C8_ManualUpsertWhenInapplicable ==
    (A.pc = "done" /\ Tried(A, "call_backfill"))
    => LET e == ProcedureCall.err IN
       /\ Tried(A, "upsert") <=> e.cls \in {"NoDataFound", "IndeterminateDatatype"}
       /\ Tried(A, "upsert")
            => /\ A.res = Count(IF ManualStatement.err = NoErr
                                THEN ManualStatement.n ELSE 0)
               /\ dest = ManualStatement.dest
       /\ (e # NoErr /\ ~Tried(A, "upsert"))
            => A.res = Raised(e) /\ dest = A.pre.dest

\* an update answered by the manual upsert on a plain table: the statement
\* returned a row and the call returns 1
C8_Witness ==
    /\ A.pc = "done" /\ A.call.api = "insert" /\ tbl.kind = "plain"
    /\ A.call.on_conflict = UPDATE
    /\ Tried(A, "call_backfill") /\ Tried(A, "upsert")
    /\ A.caught = NoErr /\ A.res = Count(1) /\ dest # A.pre.dest

\* whether the call selects a policy for which the primary key is unknown
PkeysUnknown ==
    /\ tbl.kind # "missing"
    /\ \/ A.call.api = "insert" /\ ~tbl.pk
       \/ A.call.api = "insert_light" /\ IsNone(A.call.pkeys)

\* C9: a call with on_conflict = update on an existing table whose primary key
\* is unknown (insert on a table without one, insert_light with pkeys=None) ends with
\* a ValueError and has tried no copy, neither into the destination nor into
\* a staging table.
C9_UpdateNeedsPkeys ==
    (A.pc = "done" /\ A.call.on_conflict = UPDATE /\ PkeysUnknown)
    => /\ A.res.kind = "error" /\ A.res.err.cls = "ValueError"
       /\ ~Tried(A, "copy") /\ ~Tried(A, "copy_tmp")

NeitherGiven == Err("ValueError", "Either df or csv must be provided")
BadDataframe == Err("ValueError", "Dataframe must be non-empty and have at least 2 columns")
NoPkeys == Err("ValueError", "Table must have primary keys defined")
ConfigErrors == {NeitherGiven, BadDataframe, NoPkeys}
MetadataReads == {"get_columns", "get_pkeys", "table_exists"}

LastRow(rows, k) ==
    rows[CHOOSE i \in 1..Len(rows) :
           rows[i].k = k /\ \A j \in (i + 1)..Len(rows) : rows[j].k # k]

DataframeCall(drop_duplicates) ==
    /\ A.pc = "done" /\ A.call.api = "insert" /\ A.call.form = "df"
    /\ A.call.drop_duplicates = drop_duplicates
    /\ tbl.pk /\ tbl.kind # "missing"

\* C11: with drop_duplicates, the batch an insert of a dataframe copies holds
\* one row per key of the dataframe, the last row that carries the key; and
\* when the call returns a count and the key was new, the destination holds
\* exactly that row for the key.
C11_LastDuplicateSurvives ==
    (DataframeCall(TRUE) /\ Tried(A, "copy"))
    => /\ BatchKeys(A.rows) = BatchKeys(A.call.rows)
       /\ \A i, j \in 1..Len(A.rows) : A.rows[i].k = A.rows[j].k => i = j
       /\ \A i \in 1..Len(A.rows) : A.rows[i] = LastRow(A.call.rows, A.rows[i].k)
       /\ A.res.kind = "count"
            => \A k \in BatchKeys(A.call.rows) :
                  ~Existing(k)
                  => /\ dest[LastRow(A.call.rows, k)] = 1
                     /\ CountKey(dest, k) = 1

\* a dataframe with two rows of one new key and different values: the key is
\* stored once, with the value of the second row
C11_Witness ==
    /\ DataframeCall(TRUE) /\ A.res = Count(1)
    /\ Len(A.call.rows) = 2
    /\ A.call.rows[1].k = A.call.rows[2].k /\ A.call.rows[1].a # A.call.rows[2].a
    /\ A.call.rows[1].a \in StoredVals
    /\ ~Existing(A.call.rows[1].k)
    /\ dest[A.call.rows[2]] = 1 /\ dest[A.call.rows[1]] = 0

C26_CopiedBatchWellFormed ==
    (A.call.api = "insert" /\ A.call.form = "df" /\ Tried(A, "copy"))
    => /\ Len(A.rows) > 0
       /\ Len(Get(A.columns)) >= 2
       /\ \A c \in Range(Get(A.columns)) : c \in Range(TableColumns)
       /\ (~IsNone(A.pkeys) /\ \A pk \in Range(Get(A.pkeys)) : pk \in Range(Get(A.columns)))
            => ~HasDuplicates(A.rows, Get(A.pkeys))

\* C22: insert_sync(df, table, schema, on_conflict) leaves the destination as
\* awaiting insert(table=table, schema=schema, df=df, on_conflict=on_conflict)
\* from the same state would, and returns what that call returns.
C22_SyncSameAsInsert ==
    (A.pc = "done" /\ A.call.api = "insert_sync")
    => LET w == RunToEnd(tbl, World(A.pre.dest, A.pre.comp, A.pre.staging, A.pre.cache,
                                    BeginInsert([A.call EXCEPT !.api = "insert"],
                                                A.pre.cache, A.pre)))
       IN /\ dest = w.dest
          /\ A.res = w.task.res

\* C29: in the backfill path the staging table created by the first statement
\* exists when the batch is copied into it, and holds the batch when the
\* procedure or the manual upsert reads it.
C29_StagingSurvivesSteps ==
    /\ (A.pc = "done" /\ Tried(A, "copy_tmp")) => ~IsNone(staging)
    /\ (A.pc = "done" /\ Tried(A, "call_backfill"))
         => /\ ~IsNone(staging)
            /\ Get(staging) = [i \in 1..Len(A.rows) |-> ProjectRow(A.rows[i], A.columns)]

\* C24: when a call that created the staging table has returned or raised,
\* no staging table is left in the session.
C24_StagingDroppedAtEnd ==
    (A.pc = "done" /\ Tried(A, "create_tmp")) => IsNone(staging)

-----------------------------------------------------------------------------
(* Properties of concurrent calls                                          *)

Other(i) == CHOOSE j \in Tasks : j # i

\* the row the destination must hold for a batch row of task i whose key no
\* other call carries: the batch row when the key was new or the policy is
\* update, the row that was there otherwise
Applied(i, r) ==
    IF CountKey(task[i].pre.dest, r.k) = 0 \/ task[i].call.on_conflict = UPDATE
    THEN dest[r] > 0
    ELSE \A q \in Rows : q.k = r.k => dest[q] = task[i].pre.dest[q]

\* C5: under interleaved calls, a call that returned a count has applied its
\* batch: every key of the batch is in the destination, and a key that no
\* other call carries holds what the call's policy makes of the batch row; and
\* no key is ever held by two rows.
C5_NoSilentLoss ==
    /\ \A i \in Tasks :
          (task[i].pc = "done" /\ task[i].res.kind = "count")
          => \A j \in 1..Len(task[i].call.rows) :
                LET r == task[i].call.rows[j] IN
                /\ CountKey(dest, r.k) > 0
                /\ r.k \notin BatchKeys(task[Other(i)].call.rows) => Applied(i, r)
    /\ \A k \in Keys : CountKey(dest, k) <= 1

\* the write round trips of a call, in the order the fallback chain takes them
WritePath == <<"copy", "create_tmp", "copy_tmp", "call_backfill", "upsert">>
WriteTrips(tk) == SelectSeq(tk.log, LAMBDA trip : trip \notin MetadataReads)

\* C25: at every moment of a call its write round trips are a beginning of
\* the chain direct copy, staging copy, procedure, manual upsert: each path
\* is tried at most once, in that order, never an earlier one again; and a
\* call that is over has a count or an error.
C25_EachPathOnceInOrder ==
    \A i \in Tasks :
        /\ Len(WriteTrips(task[i])) <= Len(WritePath)
        /\ \A j \in 1..Len(WriteTrips(task[i])) :
              j <= Len(WritePath) => WriteTrips(task[i])[j] = WritePath[j]
        /\ task[i].pc = "done" => task[i].res.kind \in {"count", "error"}
C25_Witness ==
    \E i \in Tasks :
        /\ task[i].pc = "done" /\ task[i].res.kind = "count"
        /\ WriteTrips(task[i]) = WritePath


\* ---------------------------------------------------------------------------
\* The pooled connection layer: AsyncDBPool.transaction and AsyncDBPool.cursor
\* ---------------------------------------------------------------------------

\* the ingestion engine takes no part in the specifications below
IngestOff == tbl = Off /\ dest = Off /\ comp = Off /\ staging = Off /\ cache = Off /\ task = Off

\* connections the pool holds; a closed connection is not replaced
MaxConns == 3
Conns == 1..MaxConns
NoConn == 0
\* asyncio tasks: P, and Q, which is any other task (a child P spawned and
\* did not await, or an unrelated one)
PTasks == {"P", "Q"}

\* a connection: st is where it is (in the pool, borrowed, closed), tx the
\* state of its session (idle, in a transaction, in the middle of a copy-in),
\* holder the task that borrowed it
FreshConn == [st |-> "pooled", tx |-> "idle", holder |-> "none"]
ClosedConn == [st |-> "closed", tx |-> "idle", holder |-> "none"]
NoOp == [kind |-> "none", conn |-> NoConn, via |-> "none"]
NoExit == [task |-> "none", conn |-> NoConn, by |-> "none", ended |-> "none", st |-> "none", raised |-> FALSE]

\* the connection left borrowed at the end of the scope
KeptOut(cn, by) == [cn EXCEPT !.tx = "idle"]
\* `async with self._conn.connection() as conn` ends: the library commits on
\* a normal end and rolls back on an exception, then gives the connection
\* back to the pool
AfterScope(cn, by) == [st |-> "pooled", tx |-> "idle", holder |-> "none"]
ScopeEnd(by) == IF by = "exception" THEN "rollback" ELSE "commit"
\* self._transactions[task] after the scope: the assignment of None follows
\* the `async with` and is skipped when the block raised
BindingAfter(by, c) == IF by = "normal" THEN NoConn ELSE c
\* task in self._transactions and self._transactions[task] is not None
IsBound(t) == pool.bound[t] # NoConn
\* another task is using the connection (a connection runs one command at a time)
Busy(c, t) == \E u \in PTasks \ {t} : pool.op[u].kind # "none" /\ pool.op[u].conn = c
Pooled(c) == pool.conn[c].st = "pooled"
TxOf(kind) == IF kind = "copy" THEN "copy" ELSE "open"

InitPool ==
    /\ IngestOff
    /\ pager = Off /\ ws = Off /\ bld = Off /\ nt = Off /\ job = Off /\ drv = Off
    /\ pool = [conn |-> [c \in Conns |-> FreshConn],
               bound |-> [t \in PTasks |-> NoConn],
               scope |-> [t \in PTasks |-> NoConn],
               op |-> [t \in PTasks |-> NoOp],
               last |-> NoExit,
               cancelled |-> {}]

PoolStep(p) == pool' = p /\ UNCHANGED <<tbl, dest, comp, staging, cache, task, pager, ws, bld, nt, job, drv>>

\* async with db.transaction(): a connection is borrowed and bound to the task
Transaction(t) ==
    /\ pool.scope[t] = NoConn /\ pool.op[t].kind = "none"
    /\ \E c \in Conns :
        /\ Pooled(c)
        /\ PoolStep([pool EXCEPT !.conn[c].st = "out", !.conn[c].holder = t,
                                 !.bound[t] = c, !.scope[t] = c])

\* the end of the block of a transaction scope, normally or by an exception
ExitScope(t, by) ==
    /\ pool.scope[t] # NoConn /\ pool.op[t].kind = "none"
    /\ LET c == pool.scope[t]
           cn == AfterScope(pool.conn[c], by)
       IN PoolStep([pool EXCEPT !.conn[c] = cn,
                                !.bound[t] = BindingAfter(by, c),
                                !.scope[t] = NoConn,
                                !.last = [task |-> t, conn |-> c, by |-> by, ended |-> ScopeEnd(by),
                                          st |-> cn.st, raised |-> by = "exception"]])

\* cursor() is entered for a statement or a copy-in: on the task's bound
\* connection, else on a connection borrowed from the pool
BeginOp(t, kind) ==
    /\ pool.op[t].kind = "none"
    /\ IF IsBound(t)
       THEN LET c == pool.bound[t] IN
            /\ pool.conn[c].st # "closed" /\ ~Busy(c, t)
            /\ PoolStep([pool EXCEPT !.conn[c].tx = TxOf(kind),
                                     !.op[t] = [kind |-> kind, conn |-> c, via |-> "bound"]])
       ELSE \E c \in Conns :
            /\ Pooled(c) /\ ~Busy(c, t)
            /\ PoolStep([pool EXCEPT !.conn[c] = [st |-> "out", tx |-> TxOf(kind), holder |-> t],
                                     !.op[t] = [kind |-> kind, conn |-> c, via |-> "pool"]])

\* cursor() is left: a borrowed connection is committed and closed (finally),
\* a bound one is left as it is, its transaction open
EndOp(t) ==
    /\ pool.op[t].kind # "none"
    /\ LET c == pool.op[t].conn IN
       PoolStep([pool EXCEPT !.conn[c] = IF pool.op[t].via = "pool" THEN ClosedConn
                                          ELSE [pool.conn[c] EXCEPT !.tx = "open"],
                             !.op[t] = NoOp])

\* the task is cancelled in the middle of a copy-in. Whether the copy could be
\* ended on the wire is not decided by this code (ended). A borrowed
\* connection is closed by cursor() or, still mid-copy, dropped by the pool;
\* inside a scope the CancelledError ends the scope; on a stale binding
\* nothing hands the connection to anyone.
Cancel(t, ended) ==
    /\ pool.op[t].kind = "copy"
    /\ LET c == pool.op[t].conn
           left == IF ended THEN "open" ELSE "copy"
           cn == IF pool.op[t].via = "pool" THEN ClosedConn
                 ELSE IF pool.scope[t] = c
                      THEN (IF ended THEN AfterScope(pool.conn[c], "exception") ELSE ClosedConn)
                      ELSE [pool.conn[c] EXCEPT !.tx = left]
       IN PoolStep([pool EXCEPT !.conn[c] = cn,
                                !.op[t] = NoOp,
                                !.scope[t] = NoConn,
                                !.bound[t] = IF pool.scope[t] = c THEN BindingAfter("exception", c) ELSE @,
                                !.last = IF pool.scope[t] = c
                                         THEN [task |-> t, conn |-> c, by |-> "exception",
                                               ended |-> ScopeEnd("exception"), st |-> cn.st, raised |-> TRUE]
                                         ELSE @,
                                !.cancelled = @ \cup {c}])

NextPool ==
    \/ \E t \in PTasks : Transaction(t)
    \/ \E t \in PTasks : ExitScope(t, "normal")
    \/ \E t \in PTasks : ExitScope(t, "exception")
    \/ \E t \in PTasks : BeginOp(t, "query")
    \/ \E t \in PTasks : BeginOp(t, "copy")
    \/ \E t \in PTasks : EndOp(t)
    \/ \E t \in PTasks, ended \in BOOLEAN : Cancel(t, ended)

SpecPool == InitPool /\ [][NextPool]_vars


\* ---------------------------------------------------------------------------
\* Properties of the pooled connection layer
\* ---------------------------------------------------------------------------

ScopeClosed == pool.last.by # "none"

\* C13 (as stated): whenever a transaction scope has been left, normally or by
\* an exception, its connection was committed and returned to the pool, and an
\* exception reached the caller only then.
C13_ScopeAlwaysCommits ==
    ScopeClosed => /\ pool.last.ended = "commit"
                   /\ pool.last.st = "pooled"
                   /\ pool.last.raised = (pool.last.by = "exception")

\* C13 (amended): a transaction scope left normally has committed its
\* connection and returned it to the pool; a scope left by an exception has
\* rolled its connection back and given it back to the pool (which keeps it,
\* or drops it when a copy-in was left unfinished), and the exception reaches
\* the caller after that.
C13_ScopeCommitsOrRollsBack ==
    ScopeClosed =>
        /\ pool.last.by = "normal" => pool.last.ended = "commit" /\ pool.last.st = "pooled" /\ ~pool.last.raised
        /\ pool.last.by = "exception" => pool.last.ended = "rollback" /\ pool.last.st \in {"pooled", "closed"} /\ pool.last.raised
C13_Witness ==
    /\ pool.last.by = "exception" /\ pool.last.ended = "rollback" /\ pool.last.st = "pooled"
    /\ pool.conn[pool.last.conn].st = "pooled" /\ pool.conn[pool.last.conn].tx = "idle"
    /\ pool.cancelled = {}


InScope(t) == pool.scope[t] # NoConn
Operating(t) == pool.op[t].kind # "none"
\* a binding that outlived its scope
Stale(t) == ~InScope(t) /\ IsBound(t)

\* C14: while the transaction scope of a task is open, an operation of that
\* task runs on the scope's connection and an operation of any other task
\* runs on a different connection.
C14_TaskAffinity ==
    \A t \in PTasks : InScope(t) =>
        /\ Operating(t) => pool.op[t].conn = pool.scope[t]
        /\ \A u \in PTasks \ {t} : Operating(u) => pool.op[u].conn # pool.scope[t]

\* C15: a task whose transaction scope has closed, normally or by an
\* exception, is bound to no connection, and a task operates only on a
\* connection it has borrowed and not yet returned.
C15_UnboundAfterScope ==
    \A t \in PTasks :
        /\ ~InScope(t) => ~IsBound(t)
        /\ Operating(t) => pool.conn[pool.op[t].conn].holder = t

\* C16: a connection on which a copy-in was cancelled is not handed on in
\* the middle of the copy: it is never in the pool, where the next borrower
\* takes it, with the copy-in unfinished.
C16_CancelledCopyNotReusable ==
    \A c \in pool.cancelled : ~(Pooled(c) /\ pool.conn[c].tx = "copy")


\* ---------------------------------------------------------------------------
\* Paginated reads: AsyncDB.cursor_paginating and AsyncDB.paginate
\* ---------------------------------------------------------------------------

\* rows of the query's result and page sizes
MaxResult == 4
MaxPage == 3

\* the orders in which a query over n rows may return them: the one order of
\* a query with a total ORDER BY, any order otherwise
Orders(n, ordered) ==
    IF ordered THEN {[i \in 1..n |-> i]}
    ELSE {o \in [1..n -> 1..n] : \A i, j \in 1..n : o[i] = o[j] => i = j}
Min(a, b) == IF a < b THEN a ELSE b
\* cursor.fetchmany(page_size) at position pos of the cursor's result
FetchMany(res, pos, page_size) == SubSeq(res, pos + 1, Min(pos + page_size, Len(res)))
\* fetch(f"{query} LIMIT {page_size} OFFSET {offset}") over one execution's order
LimitOffset(res, page_size, offset) == SubSeq(res, offset + 1, Min(offset + page_size, Len(res)))
CountItem(n) == [kind |-> "count", n |-> n, rows |-> <<>>]
PageItem(rows) == [kind |-> "page", n |-> Len(rows), rows |-> rows]
\* while len(rows) == page_size
MorePagesWhileNonEmpty(rows, page_size) == Len(rows) > 0
MorePages(rows, page_size) == Len(rows) = page_size
\* ceil(total_rows / page_size)
FloorPlusOne(total_rows, page_size) == total_rows \div page_size + 1
NPages(total_rows, page_size) == (total_rows + page_size - 1) \div page_size

PagerCalls ==
    [api : {"cursor_paginating", "paginate"}, n : 0..MaxResult, page_size : 1..MaxPage,
     return_count : BOOLEAN, ordered : BOOLEAN]

InitPager ==
    /\ IngestOff
    /\ pool = Off /\ ws = Off /\ bld = Off /\ nt = Off /\ job = Off /\ drv = Off
    /\ \E c \in PagerCalls :
        /\ c.api = "paginate" => ~c.return_count
        /\ pager = [call |-> c, pc |-> "start", res |-> <<>>, pos |-> 0, page |-> 0, n_pages |-> 0, out |-> <<>>]

PagerStep(p) == pager' = p /\ UNCHANGED <<tbl, dest, comp, staging, cache, task, pool, ws, bld, nt, job, drv>>

\* one fetchmany and its yield; the generator ends after a page that is not full
CursorPage(g) ==
    LET rows == FetchMany(g.res, g.pos, g.call.page_size) IN
    [g EXCEPT !.pos = g.pos + Len(rows),
              !.out = Append(g.out, PageItem(rows)),
              !.pc = IF MorePages(rows, g.call.page_size) THEN "loop" ELSE "end"]

\* the consumer resumes cursor_paginating: the generator runs to its next yield
CursorPaginatingNext ==
    /\ pager.call.api = "cursor_paginating"
    /\ \/ /\ pager.pc = "start"
          /\ \E res \in Orders(pager.call.n, pager.call.ordered) :
              LET g == [pager EXCEPT !.res = res] IN
              IF pager.call.return_count
              THEN PagerStep([g EXCEPT !.out = Append(g.out, CountItem(Len(res))), !.pc = "first"])
              ELSE PagerStep(CursorPage(g))
       \/ /\ pager.pc \in {"first", "loop"}
          /\ PagerStep(CursorPage(pager))
       \/ /\ pager.pc = "end"
          /\ PagerStep([pager EXCEPT !.pc = "done"])

\* the consumer resumes paginate: the count query on the first resumption,
\* then one fetch per page, each a new execution of the query
PaginateNext ==
    /\ pager.call.api = "paginate"
    /\ \/ /\ pager.pc = "start"
          /\ LET total_rows == pager.call.n IN
             IF total_rows = 0
             THEN PagerStep([pager EXCEPT !.out = Append(pager.out, PageItem(<<>>)), !.pc = "end"])
             ELSE LET n_pages == NPages(total_rows, pager.call.page_size) IN
                  \E res \in Orders(pager.call.n, pager.call.ordered) :
                  IF n_pages = 1
                  THEN PagerStep([pager EXCEPT !.n_pages = n_pages,
                                               !.out = Append(pager.out, PageItem(res)), !.pc = "end"])
                  ELSE PagerStep([pager EXCEPT !.n_pages = n_pages, !.page = 1,
                                               !.out = Append(pager.out, PageItem(LimitOffset(res, pager.call.page_size, 0))),
                                               !.pc = "loop"])
       \/ /\ pager.pc = "loop"
          /\ IF pager.page < pager.n_pages
             THEN \E res \in Orders(pager.call.n, pager.call.ordered) :
                  PagerStep([pager EXCEPT !.page = pager.page + 1,
                                          !.out = Append(pager.out, PageItem(LimitOffset(res, pager.call.page_size, pager.page * pager.call.page_size)))])
             ELSE PagerStep([pager EXCEPT !.pc = "done"])
       \/ /\ pager.pc = "end"
          /\ PagerStep([pager EXCEPT !.pc = "done"])

NextPager ==
    \/ CursorPaginatingNext
    \/ PaginateNext

SpecPager == InitPager /\ [][NextPager]_vars


\* ---------------------------------------------------------------------------
\* Properties of paginated reads
\* ---------------------------------------------------------------------------

IsPage(item) == item.kind = "page"
IsCount(item) == item.kind = "count"
PagesOf(out) == SelectSeq(out, IsPage)
RECURSIVE Flatten(_)
Flatten(items) == IF items = <<>> THEN <<>> ELSE Head(items).rows \o Flatten(Tail(items))
Ended == pager.pc \in {"end", "done"}
\* the least k with k * d >= n
CeilDiv(n, d) == CHOOSE k \in 0..n : k * d >= n /\ \A j \in 0..(k - 1) : j * d < n
EachRowOnce(rows, n) == Len(rows) = n /\ \A r \in 1..n : \E i \in 1..Len(rows) : rows[i] = r

\* C17: cursor_paginating yields the rows of the result in order, in pages
\* that are all full except the last one yielded, which is the first page
\* with fewer than page_size rows (possibly none) and ends the sequence; the
\* pages together are the result; the row count is yielded once, first, when
\* return_count is set, and never otherwise.
C17_CursorPages ==
    pager.call.api = "cursor_paginating" =>
        LET pages == PagesOf(pager.out)
            counts == SelectSeq(pager.out, IsCount)
        IN /\ \A i \in 1..(Len(pages) - 1) : Len(pages[i].rows) = pager.call.page_size
           /\ Ended => /\ Len(pages) >= 1
                       /\ Len(pages[Len(pages)].rows) < pager.call.page_size
                       /\ Flatten(pages) = pager.res
           /\ ~Ended => /\ \A i \in 1..Len(pages) : Len(pages[i].rows) = pager.call.page_size
                        /\ Flatten(pages) = SubSeq(pager.res, 1, pager.pos)
           /\ pager.call.return_count /\ pager.pc # "start"
                => counts = <<CountItem(pager.call.n)>> /\ pager.out[1] = CountItem(pager.call.n)
           /\ ~pager.call.return_count => counts = <<>>
C17_Witness ==
    /\ pager.call.api = "cursor_paginating" /\ pager.pc = "done" /\ pager.call.return_count
    /\ pager.call.n = 4 /\ pager.call.page_size = 2
    /\ Len(pager.out) = 4 /\ pager.out[4] = PageItem(<<>>)

PaginateDone == pager.call.api = "paginate" /\ pager.pc = "done"
PageCountAndSize ==
    /\ Len(pager.out) = (IF pager.call.n = 0 THEN 1 ELSE CeilDiv(pager.call.n, pager.call.page_size))
    /\ \A i \in 1..Len(pager.out) : IsPage(pager.out[i]) /\ Len(pager.out[i].rows) <= pager.call.page_size

\* C18 (as stated): paginate over a query of N rows yields max(1, ceil(N /
\* page_size)) pages of at most page_size rows that together hold each row of
\* the query exactly once.
C18_PaginateEachRowOnce ==
    PaginateDone => PageCountAndSize /\ EachRowOnce(Flatten(pager.out), pager.call.n)

\* C18 (amended): paginate yields max(1, ceil(N / page_size)) pages of at most
\* page_size rows; they hold each row of the query exactly once when every
\* execution of the query returns its rows in the same order.
C18_PaginateOrdered ==
    PaginateDone => /\ PageCountAndSize
                    /\ pager.call.ordered => /\ EachRowOnce(Flatten(pager.out), pager.call.n)
                                             /\ Flatten(pager.out) = [i \in 1..pager.call.n |-> i]
C18_Witness ==
    /\ PaginateDone /\ pager.call.ordered /\ pager.call.n = 4 /\ pager.call.page_size = 3
    /\ pager.out = <<PageItem(<<1, 2, 3>>), PageItem(<<4>>)>>


\* ---------------------------------------------------------------------------
\* The streaming store channel: handle_store_websocket
\* ---------------------------------------------------------------------------

\* chunks a client sends on one channel
MaxChunks == 3

\* class Message
ACK == "ack"
AUTH_FAILED == "auth_failed"
Tokens == {ACK, AUTH_FAILED}
\* a chunk of bytes: a dataframe TSLib.insert stores, a dataframe it rejects
\* (strict duplicate check, storage error), or bytes that are not parquet
ChunkKinds == {"stored", "rejected", "undecodable"}
\* the user of the channel: none, one with write access, one without
StoreUsers == {"none", "writer", "reader"}
\* traceback.format_exc() of the exception TSLib.insert raised
TracebackText == "Traceback (most recent call last): ... ValueError: Duplicate values found in primary key columns"

\* check_permissions raises HTTPException when the user's level is below WRITE
AuthFails(user) == user = "reader"
\* _check_store_auth: the reply, and whether the channel stays open
AuthReply(user) == IF AuthFails(user) THEN AUTH_FAILED ELSE ACK
\* _store: None when the insert returned, else the text of the traceback
StoreResult(chunk) == IF chunk = "stored" THEN ACK ELSE TracebackText
\* decode_parquet raises on bytes that are not a parquet file
Decodes(chunk) == chunk # "undecodable"

InitStore ==
    /\ IngestOff
    /\ pool = Off /\ pager = Off /\ bld = Off /\ nt = Off /\ job = Off /\ drv = Off
    /\ \E u \in StoreUsers :
        ws = [user |-> u, pc |-> "accept", client |-> "open", queue |-> <<>>,
              cur |-> "none", received |-> 0, sent |-> <<>>]

StoreStep(w) == ws' = w /\ UNCHANGED <<tbl, dest, comp, staging, cache, task, pool, pager, bld, nt, job, drv>>

\* websocket.accept() and _check_store_auth
CheckStoreAuth ==
    /\ ws.pc = "accept"
    /\ StoreStep([ws EXCEPT !.sent = Append(ws.sent, AuthReply(ws.user)),
                            !.pc = IF AuthFails(ws.user) THEN "closed" ELSE "receive"])

\* the client sends a chunk
ClientSend(chunk) ==
    /\ ws.client = "open" /\ ws.pc # "closed"
    /\ ws.received + Len(ws.queue) < MaxChunks
    /\ StoreStep([ws EXCEPT !.queue = Append(ws.queue, chunk)])

\* the client goes away
ClientDisconnect ==
    /\ ws.client = "open"
    /\ StoreStep([ws EXCEPT !.client = "gone"])

\* data = await websocket.receive_bytes(): the next chunk, or
\* WebSocketDisconnect, which ends the handler
ReceiveBytes ==
    /\ ws.pc = "receive"
    /\ IF ws.queue # <<>>
       THEN StoreStep([ws EXCEPT !.cur = Head(ws.queue), !.queue = Tail(ws.queue),
                                 !.received = ws.received + 1, !.pc = "store"])
       ELSE /\ ws.client = "gone"
            /\ StoreStep([ws EXCEPT !.pc = "disconnected"])

\* decode_parquet, _store and the reply; an exception of decode_parquet is
\* not caught by the handler and ends it
StoreAndReply ==
    /\ ws.pc = "store"
    /\ IF Decodes(ws.cur)
       THEN StoreStep([ws EXCEPT !.sent = Append(ws.sent, StoreResult(ws.cur)), !.pc = "receive"])
       ELSE StoreStep([ws EXCEPT !.pc = "failed"])

NextStore ==
    \/ CheckStoreAuth
    \/ \E chunk \in ChunkKinds : ClientSend(chunk)
    \/ ClientDisconnect
    \/ ReceiveBytes
    \/ StoreAndReply

SpecStore == InitStore /\ [][NextStore]_vars

\* ---------------------------------------------------------------------------
\* Properties of the streaming store channel
\* ---------------------------------------------------------------------------

\* C19: after the authorization reply, whenever the server is about to read
\* a chunk or has stopped, every chunk it has read was answered with exactly
\* one message, and each of those messages is one of the two fixed tokens.
C19_OneTokenPerChunk ==
    ws.pc \in {"receive", "disconnected", "failed", "closed"} =>
        /\ Len(ws.sent) = 1 + ws.received
        /\ \A i \in 2..Len(ws.sent) : ws.sent[i] \in Tokens


\* ---------------------------------------------------------------------------
\* The builder factory: BuilderFactory.get_builder
\* ---------------------------------------------------------------------------

\* the keys of TABLES: the data types named by the dispatch, and "eod" and
\* "quotes" for the ones it does not name
KnownDTypes ==
    {"tt_audittrail", "events", "dlveod", "dlvintra", "spreadeod", "spreadintra",
     "strategieseod", "strategiesintra", "ecoreleases", "eod", "quotes"}
RequestDTypes == KnownDTypes \cup {"unknown"}
NoTicker == "None"
\* a plain instrument, a driver's name, generics of one and two numbers, a
\* generic whose generic part is a letter
RequestTickers == {"EDM22", "USSOC11H", "EDG1NR", "EDG1_2NR", "EDGXNR"}
\* the driver registries the database may hold
DriverRegistries == {{}, {"USSOC11H"}, {"USSOC11H", "EDG1NR"}}

\* re.match(PRODTYPE_REGEX["GNR"], ticker): the generic group, none when the
\* ticker does not match
MatchGNR(ticker) ==
    CASE ticker = "EDG1NR" -> Some("1")
      [] ticker = "EDG1_2NR" -> Some("1_2")
      [] ticker = "EDGXNR" -> Some("X")
      [] OTHER -> NoneV
\* [int(x) for x in generic.split("_")]: none when a part is not a number
Generics(generic) ==
    CASE generic = "1" -> Some(<<1>>)
      [] generic = "1_2" -> Some(<<1, 2>>)
      [] OTHER -> NoneV

Built(cls, table, generics) == [kind |-> "builder", cls |-> cls, table |-> table, generics |-> generics]
Failed(cls) == [kind |-> "error", cls |-> cls, table |-> <<>>, generics |-> <<>>]
Pending == [kind |-> "pending", cls |-> "", table |-> <<>>, generics |-> <<>>]

\* get_driver: the ticker is the name of a driver of the registry
GetDriver(ticker, drivers) == ticker \in drivers
\* TABLES[dtype] and CUSTOM_INDEXES_TABLE.format(dtype=dtype)
TableOf(dtype) == <<"TABLES", dtype>>
CustomIndexesTable(dtype) == <<"cus_indexes", dtype>>
\* get_default_table
DefaultTable(request, drivers) ==
    IF GetDriver(request.ticker, drivers) THEN Some(CustomIndexesTable(request.dtype))
    ELSE IF request.dtype \in KnownDTypes THEN Some(TableOf(request.dtype))
    ELSE NoneV

\* the dispatch of get_builder over dtype and ticker, the table known
Dispatch(request, drivers, table) ==
    IF request.dtype = "tt_audittrail" THEN Built("AuditTrailBuilder", table, <<>>)
    ELSE IF request.dtype = "events" THEN Built("EventBuilder", table, <<>>)
    ELSE IF request.dtype \in {"dlveod", "dlvintra"} THEN
        IF request.ticker = NoTicker THEN Failed("TypeError")
        ELSE IF IsNone(MatchGNR(request.ticker)) THEN Built("DLVBuilder", table, <<>>)
        ELSE IF IsNone(Generics(Get(MatchGNR(request.ticker)))) THEN Failed("ValueError")
        ELSE Built("DLVBuilder", table, Get(Generics(Get(MatchGNR(request.ticker)))))
    ELSE IF request.dtype \in {"spreadeod", "spreadintra"} THEN Built("SpreadBuilder", table, <<>>)
    ELSE IF request.dtype \in {"strategieseod", "strategiesintra"} THEN Built("StrategyBuilder", table, <<>>)
    ELSE IF request.dtype = "ecoreleases" THEN Built("EcoReleaseBuilder", table, <<>>)
    ELSE IF request.ticker = NoTicker THEN Built("StandardBuilder", table, <<>>)
    ELSE IF GetDriver(request.ticker, drivers) THEN Built("DriverBuilder", table, <<>>)
    ELSE Built("StandardBuilder", table, <<>>)

\* BuilderFactory.get_builder(request, db, table)
GetBuilderResult(request, drivers, table) ==
    LET t == IF IsNone(table) THEN DefaultTable(request, drivers) ELSE table IN
    IF IsNone(t) THEN Failed("DataTypeNotFound") ELSE Dispatch(request, drivers, Get(t))

InitBuilder ==
    /\ IngestOff
    /\ pool = Off /\ pager = Off /\ ws = Off /\ nt = Off /\ job = Off /\ drv = Off
    /\ \E dtype \in RequestDTypes, ticker \in RequestTickers \cup {NoTicker},
          drivers \in DriverRegistries, table \in {NoneV, Some(<<"staging">>)} :
        bld = [request |-> [dtype |-> dtype, ticker |-> ticker], drivers |-> drivers,
               table |-> table, result |-> Pending]

GetBuilder ==
    /\ bld.result = Pending
    /\ bld' = [bld EXCEPT !.result = GetBuilderResult(bld.request, bld.drivers, bld.table)]
    /\ UNCHANGED <<tbl, dest, comp, staging, cache, task, pool, pager, ws, nt, job, drv>>

NextBuilder == GetBuilder

SpecBuilder == InitBuilder /\ [][NextBuilder]_vars

\* ---------------------------------------------------------------------------
\* Properties of the builder factory
\* ---------------------------------------------------------------------------

\* the builder the first matching rule names
RuleBuilder(request, drivers) ==
    CASE request.dtype = "tt_audittrail" -> "AuditTrailBuilder"
      [] request.dtype = "events" -> "EventBuilder"
      [] request.dtype \in {"dlveod", "dlvintra"} -> "DLVBuilder"
      [] request.dtype \in {"spreadeod", "spreadintra"} -> "SpreadBuilder"
      [] request.dtype \in {"strategieseod", "strategiesintra"} -> "StrategyBuilder"
      [] request.dtype = "ecoreleases" -> "EcoReleaseBuilder"
      [] OTHER -> IF request.ticker = NoTicker THEN "StandardBuilder"
                  ELSE IF request.ticker \in drivers THEN "DriverBuilder"
                  ELSE "StandardBuilder"

\* C20: for a request of a known data type, with or without a ticker,
\* get_builder returns a builder, and it is the builder of the first rule
\* that matches the request.
C20_FirstMatchingRule ==
    (bld.result # Pending /\ bld.request.dtype \in KnownDTypes)
    => /\ bld.result.kind = "builder"
       /\ bld.result.cls = RuleBuilder(bld.request, bld.drivers)

-----------------------------------------------------------------------------
(* The notices of a statement: AsyncDB.execute(notice=True) as               *)
(* timescale.backfill calls it, by two tasks on one layer                    *)

MaxNoticeCalls == 2
\* a call of execute: the task and the number of its call
CallIds == Tasks \X (1..MaxNoticeCalls)

\* a notice without the word "rows", and one that holds the word after a
\* first word that is no number
InfoNotice == [rows |-> FALSE, num |-> FALSE, n |-> 0]
OddNotice == [rows |-> TRUE, num |-> FALSE, n |-> 0]

\* the notices the server raises while one CALL runs
NoticeLists ==
    {<<>>, <<Notice(1)>>, <<Notice(2), InfoNotice>>, <<Notice(1), Notice(2)>>,
     <<InfoNotice>>, <<Notice(1), OddNotice>>}

IdleCall == [pc |-> "idle", n |-> 0, emits |-> <<>>, returned |-> FALSE,
             ret |-> <<>>, rows |-> 0]

InitNotice ==
    /\ IngestOff
    /\ pool = Off /\ pager = Off /\ ws = Off /\ bld = Off /\ job = Off /\ drv = Off
    /\ \E layer \in {"single", "pool"} :
        nt = [layer |-> layer, handlers |-> {},
              notice_msg |-> [h \in CallIds |-> <<>>],
              call |-> [i \in Tasks |-> IdleCall]]

NoticeStep(n) ==
    nt' = n /\ UNCHANGED <<tbl, dest, comp, staging, cache, task, pool, pager, ws, bld, job, drv>>

\* isinstance(self.conn, psycopg.AsyncConnection): the conn of AsyncDBPool is
\* the pool
ConnIsAsyncConnection(layer) == layer = "single"

\* AsyncDB.execute up to its first await: notice_msg = [] and, on a single
\* connection, add_notice_handler(on_notice); the handler is never removed
ExecuteBegin(i, msgs) ==
    LET c == nt.call[i]
        id == <<i, c.n + 1>>
    IN /\ c.pc = "idle"
       /\ c.n < MaxNoticeCalls
       /\ NoticeStep([nt EXCEPT
              !.handlers = IF ConnIsAsyncConnection(nt.layer) THEN @ \cup {id} ELSE @,
              !.call[i] = [pc |-> "waiting", n |-> c.n + 1, emits |-> msgs,
                           returned |-> FALSE, ret |-> <<>>, rows |-> 0]])

\* the connection hands a notice to every handler registered on it
Deliver(handlers, lists, msgs) ==
    [h \in CallIds |-> IF h \in handlers THEN lists[h] \o msgs ELSE lists[h]]

\* the statement runs under the lock of the connection, execute returns
\* notice_msg and timescale.backfill sums it
ExecuteEnd(i) ==
    LET c == nt.call[i]
        lists == Deliver(nt.handlers, nt.notice_msg, c.emits)
        ret == lists[<<i, c.n>>]
    IN /\ c.pc = "waiting"
       /\ NoticeStep([nt EXCEPT
              !.notice_msg = lists,
              !.call[i] = [c EXCEPT !.pc = "idle", !.returned = TRUE, !.ret = ret,
                                    !.rows = ParseNotices(ret)]])

NextNotice ==
    \/ \E i \in Tasks : \E msgs \in NoticeLists : ExecuteBegin(i, msgs)
    \/ \E i \in Tasks : ExecuteEnd(i)

SpecNotice == InitNotice /\ [][NextNotice]_vars

-----------------------------------------------------------------------------
(* Properties of the notices                                               *)

\* the sum of the leading integers of the notices "<N> rows ..."
RECURSIVE LeadingIntegers(_, _)
LeadingIntegers(msgs, i) ==
    IF i > Len(msgs) THEN 0
    ELSE (IF msgs[i].rows /\ msgs[i].num THEN msgs[i].n ELSE 0)
         + LeadingIntegers(msgs, i + 1)

\* C23: the row count of a backfill is the sum of the leading integers of the
\* notices "<N> rows ..." its CALL raised (zero when there is none), on the
\* single connection and on the pool.
C23_CountIsSumOfNotices ==
    \A i \in Tasks :
        nt.call[i].returned => nt.call[i].rows = LeadingIntegers(nt.call[i].emits, 1)

\* C30: the notices execute(notice=True) returns are exactly the notices its
\* own statement raised.
C30_OwnNoticesOnly ==
    \A i \in Tasks : nt.call[i].returned => nt.call[i].ret = nt.call[i].emits

-----------------------------------------------------------------------------
(* The compression jobs: timescale.pause_compression_job and               *)
(* timescale.run_compression_job                                           *)

MaxJobs == 3
\* the compression policy jobs of the database, one per hypertable
Jobs == 1..MaxJobs

\* the job_id a statement is built from: an integer, None, or the coroutine
\* object get_compression_job returns
IntId(j) == [kind |-> "int", id |-> j]
NoId == [kind |-> "none", id |-> 0]
CoroutineId == [kind |-> "coroutine", id |-> 0]

\* how the caller names the job: by job_id alone, or by table and schema
JobCalls == [op : {"pause", "run"}, by : {"job_id", "table"}, target : Jobs]
NoJobCall == [op |-> "none", by |-> "none", target |-> 0]

\* no coroutine is waiting to be awaited
NoStatement == [job_id |-> NoId, scheduled |-> FALSE]

InitJobs ==
    /\ IngestOff
    /\ pool = Off /\ pager = Off /\ ws = Off /\ bld = Off /\ nt = Off /\ drv = Off
    /\ \E s \in [Jobs -> BOOLEAN] :
        job = [scheduled |-> s, pc |-> "idle", call |-> NoJobCall,
               coro |-> NoStatement, err |-> "none"]

JobStep(j) ==
    job' = j /\ UNCHANGED <<tbl, dest, comp, staging, cache, task, pool, pager, ws, bld, nt, drv>>

\* get_compression_job: return conn.fetchval(...), the coroutine and not the
\* value it would fetch
GetCompressionJob(target) == CoroutineId

\* pause_compression_job: return conn.execute(alter_job(job_id, scheduled =>
\* false)), a coroutine that has not started
PauseCompressionJob(c) ==
    LET given == IF c.by = "job_id" THEN IntId(c.target) ELSE NoId
        job_id == IF given = NoId THEN GetCompressionJob(c.target) ELSE given
    IN [job EXCEPT !.pc = "returned", !.call = c, !.err = "none",
                   !.coro = [job_id |-> job_id, scheduled |-> FALSE]]

\* run_compression_job: the job is looked up when no job_id is given and the
\* table and schema are; otherwise a missing table or schema is a ValueError,
\* also when the job_id is given; return conn.execute(alter_job(job_id,
\* scheduled => true)), a coroutine that has not started
RunCompressionJob(c) ==
    LET given == IF c.by = "job_id" THEN IntId(c.target) ELSE NoId
        named == c.by = "table"
    IN IF given = NoId /\ named
       THEN [job EXCEPT !.pc = "returned", !.call = c, !.err = "none",
                        !.coro = [job_id |-> GetCompressionJob(c.target),
                                  scheduled |-> TRUE]]
       ELSE IF ~named
       THEN [job EXCEPT !.pc = "raised", !.call = c, !.err = "ValueError",
                        !.coro = NoStatement]
       ELSE [job EXCEPT !.pc = "returned", !.call = c, !.err = "none",
                        !.coro = [job_id |-> given, scheduled |-> TRUE]]

\* await timescale.pause_compression_job(...) or run_compression_job(...); a
\* coroutine left over from the call before is dropped
CallJob(c) ==
    JobStep(IF c.op = "pause" THEN PauseCompressionJob(c) ELSE RunCompressionJob(c))

\* the caller awaits what the call returned: SELECT alter_job(<job_id>, ...)
\* runs, a syntax error when the job_id is the text of a coroutine object
AwaitReturned ==
    /\ job.pc = "returned"
    /\ job.coro # NoStatement
    /\ JobStep(IF job.coro.job_id.kind = "int"
               THEN [job EXCEPT !.scheduled[job.coro.job_id.id] = job.coro.scheduled,
                                !.pc = "awaited", !.coro = NoStatement]
               ELSE [job EXCEPT !.pc = "awaited", !.coro = NoStatement,
                                !.err = "SyntaxError"])

NextJobs ==
    \/ \E c \in JobCalls : CallJob(c)
    \/ AwaitReturned

SpecJobs == InitJobs /\ [][NextJobs]_vars

\* C28: once pause_compression_job has been awaited the schedule of the job
\* is disabled, once run_compression_job has been awaited it is enabled,
\* whether the job is named by job_id or by table and schema.
C28_ScheduleSetOnReturn ==
    /\ job.pc \in {"returned", "raised"}
        => job.scheduled[job.call.target] = (job.call.op = "run")
    /\ job.pc # "raised"

-----------------------------------------------------------------------------
(* A driver of two legs: the query DriverBuilder._build_linear_comb_sql    *)
(* builds, run on the series of its legs                                   *)

MaxTime == 3
MaxValue == 2
Times == 1..MaxTime
\* a leg holds at most one row per timestamp, with a value of its attribute
NoRow == 0
LegValues == 1..MaxValue
\* from_date or to_date left out of the request
NoDate == 0

\* the driver of the registry: legs[0] and legs[1] with their weights
DriverLegs == <<[instrument |-> "l1", weight |-> 100],
                [instrument |-> "l2", weight |-> 0 - 100]>>
LegNames == {DriverLegs[i].instrument : i \in 1..Len(DriverLegs)}

\* the series of an instrument that has data
LegSeries == {f \in [Times -> {NoRow} \cup LegValues] : \E t \in Times : f[t] # NoRow}

Sql(x) == [null |-> FALSE, v |-> x]
SqlNull == [null |-> TRUE, v |-> 0]

\* StandardBuilder.get_available_range: start and end of the instrument in
\* instruments_info
FirstDate(f) == CHOOSE t \in Times : f[t] # NoRow /\ \A u \in Times : f[u] # NoRow => t <= u
LastDate(f) == CHOOSE t \in Times : f[t] # NoRow /\ \A u \in Times : f[u] # NoRow => u <= t

Max2(a, b) == IF a >= b THEN a ELSE b
Min2(a, b) == IF a <= b THEN a ELSE b

\* DriverBuilder.get_available_range: max(first_dates), min(last_dates)
AvailableRange(series) ==
    [first |-> Max2(FirstDate(series["l1"]), FirstDate(series["l2"])),
     last |-> Min2(LastDate(series["l1"]), LastDate(series["l2"]))]

\* from_date = from_date or first_date; to_date = to_date or last_date
QueryRange(series, from_date, to_date) ==
    [from |-> IF from_date = NoDate THEN AvailableRange(series).first ELSE from_date,
     to |-> IF to_date = NoDate THEN AvailableRange(series).last ELSE to_date]

\* the subquery of a leg: StandardBuilder.build_sql, its rows with
\* dtime >= from_date AND dtime <= to_date
LegSubquery(f, range) ==
    [t \in Times |-> IF range.from <= t /\ t <= range.to THEN f[t] ELSE NoRow]

\* fill_na(leg.attr) over (order by dtime): the last value of the leg in the
\* joined rows up to the current one, NULL when there is none
FillNa(sub, t) ==
    IF \E u \in Times : u <= t /\ sub[u] # NoRow
    THEN Sql(sub[CHOOSE u \in Times :
                   /\ u <= t /\ sub[u] # NoRow
                   /\ \A x \in Times : (x <= t /\ sub[x] # NoRow) => x <= u])
    ELSE SqlNull

\* weight * value and value + value of SQL: NULL when an operand is NULL
SqlTimes(w, a) == IF a.null THEN SqlNull ELSE Sql(w * a.v)
SqlPlus(a, b) == IF a.null \/ b.null THEN SqlNull ELSE Sql(a.v + b.v)

\* the rows of l1 FULL OUTER JOIN l2 ON l1.dtime = l2.dtime with dtime =
\* COALESCE(l1.dtime, l2.dtime), and the linear combination in each of them
LinearComb(series, range) ==
    LET s1 == LegSubquery(series["l1"], range)
        s2 == LegSubquery(series["l2"], range)
    IN [t \in Times |->
          [row |-> s1[t] # NoRow \/ s2[t] # NoRow,
           val |-> SqlPlus(SqlTimes(DriverLegs[1].weight, FillNa(s1, t)),
                           SqlTimes(DriverLegs[2].weight, FillNa(s2, t)))]]

NoRows == [t \in Times |-> [row |-> FALSE, val |-> SqlNull]]

InitDriver ==
    /\ IngestOff
    /\ pool = Off /\ pager = Off /\ ws = Off /\ bld = Off /\ nt = Off /\ job = Off
    /\ \E series \in [LegNames -> LegSeries], from_date \in Times \cup {NoDate},
          to_date \in Times \cup {NoDate} :
        drv = [series |-> series, from_date |-> from_date, to_date |-> to_date,
               pc |-> "request", rows |-> NoRows]

DriverStep(d) ==
    drv' = d /\ UNCHANGED <<tbl, dest, comp, staging, cache, task, pool, pager, ws, bld, nt, job>>

\* the driver is loaded: build_sql and the fetch of its rows
LoadDriver ==
    /\ drv.pc = "request"
    /\ DriverStep([drv EXCEPT !.pc = "loaded",
                     !.rows = LinearComb(drv.series,
                                         QueryRange(drv.series, drv.from_date, drv.to_date))])

NextDriver == LoadDriver

SpecDriver == InitDriver /\ [][NextDriver]_vars

\* the most recent timestamp before t at which the leg holds a value
EarlierDates(f, t) == {u \in Times : u < t /\ f[u] # NoRow}
MostRecentEarlier(f, t) ==
    CHOOSE u \in EarlierDates(f, t) : \A x \in EarlierDates(f, t) : x <= u

\* C21: a row of the driver at a timestamp both legs hold is 100 * leg1 -
\* 100 * leg2 there; at a timestamp only leg1 holds it is 100 * leg1 - 100 *
\* the most recent earlier value of leg2.
C21_LinearCombForwardFilled ==
    drv.pc = "loaded" =>
      \A t \in Times :
        LET l1 == drv.series["l1"]
            l2 == drv.series["l2"]
        IN /\ (drv.rows[t].row /\ l1[t] # NoRow /\ l2[t] # NoRow)
               => drv.rows[t].val = Sql(100 * l1[t] - 100 * l2[t])
           /\ (drv.rows[t].row /\ l1[t] # NoRow /\ l2[t] = NoRow
                             /\ EarlierDates(l2, t) # {})
               => drv.rows[t].val = Sql(100 * l1[t] - 100 * l2[MostRecentEarlier(l2, t)])

-----------------------------------------------------------------------------
(* Leg resolution: DriverBuilder.build_sql and get_available_range ask     *)
(* BuilderFactory.get_builder for the builder of every leg and call it     *)

\* the deepest chain of calls the interpreter allows before RecursionError
RecursionLimit == 4
LegDrivers == {"D1", "D2"}
LegInstruments == {"I1", "I2"}
\* the drivers table: the legs of every driver, each a driver or an instrument
LegRegistries == [LegDrivers -> (LegDrivers \cup LegInstruments) \X (LegDrivers \cup LegInstruments)]

\* a factory that takes every leg for a plain instrument
StandardForAll(registry, ticker) == FALSE

\* BuilderFactory.get_builder for the request of a leg: get_driver finds the
\* ticker in the registry and a DriverBuilder is returned, else a
\* StandardBuilder
IsDriverBuilder(registry, ticker) == ticker \in DOMAIN registry

\* the drivers a request for d resolves, at any depth
RECURSIVE ReachedFrom(_, _)
ReachedFrom(registry, ds) ==
    LET more == ds \cup ({registry[d][i] : d \in ds, i \in 1..2} \cap LegDrivers)
    IN IF more = ds THEN ds ELSE ReachedFrom(registry, more)
LegsOf(registry, d) == {registry[d][i] : i \in 1..2} \cap LegDrivers
\* a driver the request reaches is among the drivers its own legs reach
Cyclic(registry, d) ==
    \E x \in ReachedFrom(registry, {d}) : x \in ReachedFrom(registry, LegsOf(registry, x))

Frame(d, op, i) == [driver |-> d, op |-> op, i |-> i]

InitLegs ==
    /\ IngestOff
    /\ pool = Off /\ pager = Off /\ ws = Off /\ bld = Off /\ nt = Off /\ job = Off
    /\ \E registry \in LegRegistries, dated \in BOOLEAN :
        drv = [registry |-> registry, dated |-> dated,
               stack |-> <<Frame("D1", "build_sql", IF dated THEN 1 ELSE 0)>>,
               resolved |-> {}, pc |-> "resolving"]

Top == drv.stack[Len(drv.stack)]
Resolving == drv.pc = "resolving" /\ Len(drv.stack) > 0
\* the leg the innermost call is about to resolve
HasLeg == Resolving /\ Top.i \in 1..2
CurrentLeg == drv.registry[Top.driver][Top.i]
Advance(stack) == [stack EXCEPT ![Len(stack)].i = @ + 1]
Pop(stack) == SubSeq(stack, 1, Len(stack) - 1)

\* _build_linear_comb_sql without from_date or to_date: await
\* self.get_available_range() before the legs are built
CallAvailableRange ==
    /\ Resolving /\ Top.i = 0
    /\ Len(drv.stack) < RecursionLimit
    /\ DriverStep([drv EXCEPT !.stack = Append(@, Frame(Top.driver, "get_available_range", 1))])

\* the leg is a driver: its DriverBuilder runs the same method
Descend ==
    /\ HasLeg
    /\ IsDriverBuilder(drv.registry, CurrentLeg)
    /\ Len(drv.stack) < RecursionLimit
    /\ DriverStep([drv EXCEPT !.stack = Append(@, Frame(CurrentLeg, Top.op, 1))])

\* the chain of calls has reached the limit of the interpreter
Overflow ==
    /\ Resolving
    /\ Top.i = 0 \/ (HasLeg /\ IsDriverBuilder(drv.registry, CurrentLeg))
    /\ Len(drv.stack) >= RecursionLimit
    /\ DriverStep([drv EXCEPT !.pc = "raised"])

\* the leg is an instrument: StandardBuilder answers without a further leg
ResolveLeg ==
    /\ HasLeg
    /\ ~IsDriverBuilder(drv.registry, CurrentLeg)
    /\ DriverStep([drv EXCEPT !.stack = Advance(@),
                              !.resolved = @ \cup {<<Top.driver, Top.i, Top.op>>}])

\* every leg of the innermost call is resolved: it returns to its caller, the
\* request is answered when it is the outermost call
ReturnToCaller ==
    /\ Resolving /\ Top.i > 2
    /\ IF Len(drv.stack) = 1
       THEN DriverStep([drv EXCEPT !.stack = <<>>, !.pc = "returned"])
       ELSE LET below == Pop(drv.stack)
                caller == below[Len(below)]
            IN DriverStep([drv EXCEPT
                   !.stack = Advance(below),
                   !.resolved = IF caller.i = 0 THEN @
                                ELSE @ \cup {<<caller.driver, caller.i, caller.op>>}])

NextLegs ==
    \/ CallAvailableRange
    \/ Descend
    \/ Overflow
    \/ ResolveLeg
    \/ ReturnToCaller

SpecLegs == InitLegs /\ [][NextLegs]_vars
\* the event loop runs the request as long as it has a step to take
SpecLegsFair == SpecLegs /\ WF_vars(NextLegs)

CyclicRequest == Cyclic(drv.registry, "D1")
\* every leg of every driver the request reaches has been built
AllLegsBuilt ==
    \A d \in ReachedFrom(drv.registry, {"D1"}) : \A i \in 1..2 :
        <<d, i, "build_sql">> \in drv.resolved

\* C27 as stated: on a driver whose legs lead back to it the resolution never
\* ends, on an acyclic registry it ends with every leg resolved.
C27_CyclicNeverEnds ==
    /\ [](CyclicRequest => drv.pc = "resolving")
    /\ [](~CyclicRequest /\ drv.pc # "resolving" => drv.pc = "returned" /\ AllLegsBuilt)
    /\ (~CyclicRequest ~> drv.pc = "returned")

\* C27: nothing guards the recursion but the interpreter. On a driver whose
\* legs lead back to it the resolution never returns a query and ends with
\* RecursionError at the recursion limit; on an acyclic registry it returns
\* with every leg resolved.
C27_CyclicEndsAtRecursionLimit ==
    /\ [](CyclicRequest => drv.pc # "returned")
    /\ [](drv.pc = "raised" => CyclicRequest /\ Len(drv.stack) = RecursionLimit)
    /\ [](drv.pc = "returned" => AllLegsBuilt)
    /\ <>(drv.pc # "resolving")

C27_Witness ==
    /\ CyclicRequest /\ drv.pc = "raised"
    /\ drv.registry["D1"][2] = "D2" /\ drv.registry["D2"][1] = "D1"

====
